---- MODULE Spec2Model ----
(***************************************************************************)
(* Model of the Pterodactyl admin bot: the application-API transport       *)
(* (PterodactylClient._request), the paginator (_paginate), the server     *)
(* creation wizard (cogs/servers.py), the admin control panel              *)
(* (cogs/manage.py), the HTTP sessions of the two API clients, the         *)
(* confirmation of destructive operations, the owner check of the slash    *)
(* commands and the build editor.                                          *)
(*                                                                         *)
(* The specifications share the variables:                                 *)
(*   SpecRequest       one transport call on every response shape          *)
(*   SpecPaginate      one _paginate call against a paged panel            *)
(*   SpecPaginateWith  the same for callers that set the page size         *)
(*   Spec              one creation session of the wizard, handlers        *)
(*                     interleaved at their suspension points              *)
(*   SpecPair          two creation sessions side by side                  *)
(*   SpecControl       the control panel's power and reinstall actions     *)
(*   SpecConfirm       reinstall and /servers delete behind their          *)
(*                     confirmation views                                  *)
(*   SpecSessions      the aiohttp sessions from start to shutdown         *)
(*   SpecCommand       one slash-command invocation and its owner check    *)
(*   SpecBuild         /servers edit-build                                 *)
(***************************************************************************)
EXTENDS Integers, Sequences, FiniteSets, TLC

VARIABLES
  transport,   \* one _request call: method, network outcome, result
  panel,       \* the panel behind _paginate: collection size, failure, meta shape
  pager,       \* one _paginate call: page, results, requests issued, outcome
  state,       \* the CreationState record of the wizard session
  views,       \* the views and modals sent to the user, in order of creation
  tasks,       \* the handler coroutines in flight, each at a suspension point
  calls,       \* application-API calls issued by the session, per operation
  log,         \* what each finished handler did and showed to the user
  races,       \* events out of turn, and timers fired on a view after an input
  control,     \* the admin control panel: confirmation, handlers, reports
  sessions,    \* the aiohttp sessions of the two API clients
  pair,        \* two creation sessions: the records made and who holds which
  deletion,    \* /servers delete: the confirmations shown and the calls issued
  command,     \* one slash-command invocation: who, which, how far, what was shown
  build        \* /servers edit-build: the pick, the modal, the update sent

wizVars == <<state, views, tasks, calls, log, races>>

\* the variables of the components added around the four above
extVars == <<sessions, pair, deletion, command, build>>

apiVars == <<transport, panel, pager, extVars>>

(***************************************************************************)
(* JSON documents are functions from key names to values; {} is the empty  *)
(* function.  Get is dict.get(key, default).                               *)
(***************************************************************************)
EmptyObj == <<>>

Get(d, k, def) == IF k \in DOMAIN d THEN d[k] ELSE def

\* a merge in which the keys of base win
MergeKeepBase(base, extra) ==
  [k \in (DOMAIN base) \cup (DOMAIN extra) |->
     IF k \in DOMAIN base THEN base[k] ELSE extra[k]]

\* {**base, **extra}: keys of extra replace those of base
Merge(base, extra) ==
  [k \in (DOMAIN base) \cup (DOMAIN extra) |->
     IF k \in DOMAIN extra THEN extra[k] ELSE base[k]]

Min(a, b) == IF a <= b THEN a ELSE b

Max(a, b) == IF a >= b THEN a ELSE b

\* seq[:n]
Take(seq, n) == SubSeq(seq, 1, Min(n, Len(seq)))

(***************************************************************************)
(* Response bodies.  A body is its text (a sequence of characters) and,    *)
(* when the text is a JSON document, the document it decodes to.           *)
(***************************************************************************)
\* the characters str.isspace() is true of.  A character TLA+ cannot write
\* in a string is named by its code point: "U+000B" is the vertical tab
Whitespace ==
  {"\t", "\n", "U+000B", "\f", "\r", "U+001C", "U+001D", "U+001E", "U+001F", " ", "U+0085",
   "U+00A0", "U+1680", "U+2000", "U+2001", "U+2002", "U+2003", "U+2004", "U+2005", "U+2006",
   "U+2007", "U+2008", "U+2009", "U+200A", "U+2028", "U+2029", "U+202F", "U+205F", "U+3000"}

RECURSIVE LStrip(_)
LStrip(t) == IF t # <<>> /\ Head(t) \in Whitespace THEN LStrip(Tail(t)) ELSE t

RECURSIVE RStrip(_)
RStrip(t) ==
  IF t # <<>> /\ t[Len(t)] \in Whitespace THEN RStrip(SubSeq(t, 1, Len(t) - 1)) ELSE t

\* a strip that leaves the text as it is
NoStrip(t) == t

\* str.strip()
Strip(t) == RStrip(LStrip(t))

\* a body that decodes to a JSON object
JsonBody(text, doc) == [text |-> text, parses |-> TRUE, object |-> TRUE, doc |-> doc]

\* a body that decodes to JSON that is not an object (an array)
JsonArrayBody(text, doc) == [text |-> text, parses |-> TRUE, object |-> FALSE, doc |-> doc]

RawBody(text) == [text |-> text, parses |-> FALSE, object |-> FALSE, doc |-> EmptyObj]

ErrorsDoc == [errors |-> <<[code |-> "E1", detail |-> "X"], [code |-> "E2", detail |-> "Y"]>>]

NoDetailDoc == [errors |-> <<[code |-> "E1"]>>]

NoErrorsDoc == [message |-> "gone"]

ObjectDoc == [object |-> "server", attributes |-> [id |-> 7]]

Bodies ==
  { RawBody(<<>>),
    RawBody(<<" ", "\n">>),
    RawBody(<<"\r", "\n">>),
    RawBody(<<"<", "h", "1", ">">>),
    JsonBody(<<"{", "e", "}">>, ErrorsDoc),
    JsonBody(<<"{", "n", "}">>, NoDetailDoc),
    JsonBody(<<" ", "{", "m", "}">>, NoErrorsDoc),
    JsonBody(<<"{", "o", "}">>, ObjectDoc),
    JsonArrayBody(<<"[", "a", "]">>, <<"a">>) }

Statuses == {200, 201, 204, 400, 404, 422, 500}

Methods == {"GET", "POST", "PATCH", "PUT", "DELETE"}

Response(status, body) == [kind |-> "response", status |-> status, body |-> body]

\* the connection failed or timed out: session.request raises aiohttp.ClientError
NetError == [kind |-> "neterror", status |-> 0, body |-> RawBody(<<>>)]

NetOutcomes == {Response(s, b) : s \in Statuses, b \in Bodies} \cup {NetError}

(***************************************************************************)
(* PterodactylClient._request.  The result is what the call returns        *)
(* (kind "ok") or the exception it raises.                                 *)
(***************************************************************************)
ExcerptLen == 500

NoContent == 204

ErrorFloor == 400

Returned(v) == [kind |-> "ok", value |-> v, status |-> 0, message |-> [kind |-> "none"]]

\* PterodactylError(status, message)
PterodactylError(status, message) ==
  [kind |-> "PterodactylError", value |-> EmptyObj, status |-> status, message |-> message]

ClientError == [kind |-> "ClientError", value |-> EmptyObj, status |-> 0, message |-> [kind |-> "none"]]

\* data.get(...) on decoded JSON that is not a dict
AttributeError ==
  [kind |-> "AttributeError", value |-> EmptyObj, status |-> 0, message |-> [kind |-> "none"]]

\* errors[0].get("detail") if errors else str(data)
ErrorMessage(data) ==
  LET errors == Get(data, "errors", <<>>)
  IN  IF errors # <<>>
        THEN IF "detail" \in DOMAIN errors[1]
               THEN [kind |-> "detail", text |-> errors[1].detail]
               ELSE [kind |-> "None"]
        ELSE [kind |-> "str", of |-> data]

_request(method, net) ==
  IF net.kind = "neterror" THEN ClientError
  ELSE IF net.status = NoContent THEN Returned(EmptyObj)
  ELSE IF Strip(net.body.text) = <<>> THEN Returned(EmptyObj)
  ELSE IF ~net.body.parses
    THEN PterodactylError(net.status, [kind |-> "raw", text |-> Take(net.body.text, ExcerptLen)])
  ELSE IF net.status >= ErrorFloor
    THEN IF net.body.object
           THEN PterodactylError(net.status, ErrorMessage(net.body.doc))
           ELSE AttributeError
  ELSE Returned(net.body.doc)

TransportIdle == [state |-> "idle", method |-> "GET", net |-> NetError, result |-> ClientError]

\* _get_session() and the start of session.request(...): a session is made
\* when self._session is None or closed, and the request is in flight on it
Opened(s) ==
  IF s.client = "open" THEN [s EXCEPT !.inflight = @ + 1]
  ELSE [s EXCEPT !.client = "open", !.created = @ + 1, !.inflight = @ + 1]

\* the `async with session.request(...)` block is left
Ended(s) == [s EXCEPT !.inflight = @ - 1]

\* AdminClientAPI._req: `async with aiohttp.ClientSession(...) as sess`, a
\* session of its own for the one request
AdminOpened(s) == [s EXCEPT !.admin = @ + 1, !.adminCreated = @ + 1]

\* the async with block of _req is left: its session is closed
AdminEnded(s) == [s EXCEPT !.admin = @ - 1]

notTransport == <<panel, pager, wizVars, control, pair, deletion, command, build>>

\* _request up to its first suspension: session = await self._get_session();
\* session.request(method, url, ...) is sent
RequestSent ==
  /\ transport.state = "pending"
  /\ transport' = [transport EXCEPT !.state = "request"]
  /\ sessions' = Opened(sessions)
  /\ UNCHANGED notTransport

\* the request is over and the block is left: what _request returns or
\* raises is there
Finished == [transport EXCEPT !.state = "done",
                              !.result = _request(transport.method, transport.net)]

\* session.request(...) has answered or failed: a failure of the connection
\* leaves _request; status 204 returns {}; else await resp.text()
ResponseArrived ==
  /\ transport.state = "request"
  /\ IF transport.net.kind = "neterror" \/ transport.net.status = NoContent
       THEN transport' = Finished /\ sessions' = Ended(sessions)
       ELSE transport' = [transport EXCEPT !.state = "text"] /\ UNCHANGED sessions
  /\ UNCHANGED notTransport

\* resp.text() has the body: a blank one returns {}; else
\* await resp.json(content_type=None)
TextRead ==
  /\ transport.state = "text"
  /\ IF Strip(transport.net.body.text) = <<>>
       THEN transport' = Finished /\ sessions' = Ended(sessions)
       ELSE transport' = [transport EXCEPT !.state = "json"] /\ UNCHANGED sessions
  /\ UNCHANGED notTransport

\* resp.json() has parsed the body or failed: the rest of _request
DoRequest ==
  /\ transport.state = "json"
  /\ transport' = Finished
  /\ sessions' = Ended(sessions)
  /\ UNCHANGED notTransport

(***************************************************************************)
(* The panel behind a listing endpoint: a collection of `total` items      *)
(* served in pages of per_page items, in the panel's own order.            *)
(***************************************************************************)
MaxItems == 205

MaxFailPage == 3

PerPage == 100

\* the panel's order is not the order of the ids: a re-sort would show
PanelItems(total) == [i \in 1..total |-> total + 1 - i]

\* ceil(total / per)
TotalPages(total, per) == (total + per - 1) \div per

PageDoc(total, p, shape) ==
  LET per   == p.per_page
      first == (p.page - 1) * per + 1
      last  == Min(p.page * per, total)
      data  == SubSeq(PanelItems(total), first, last)
      pag   == [current_page |-> p.page, total_pages |-> TotalPages(total, per)]
  IN  IF shape = "paged" THEN [data |-> data, meta |-> [pagination |-> pag]]
      ELSE IF shape = "bare" THEN [data |-> data, meta |-> EmptyObj]
      ELSE IF shape = "nometa" THEN [data |-> data]
      ELSE [meta |-> EmptyObj]

\* the answers a panel can give: with the pagination block, with an empty
\* meta, with no meta, and with an empty meta and no data
Shapes == {"paged", "bare", "nometa", "nodata"}

FailureOutcomes == {Response(500, JsonBody(<<"{", "e", "}">>, ErrorsDoc)), NetError}

\* what the network gives back for GET endpoint?page=..&per_page=..
PanelReply(p) ==
  IF panel.failAt = p.page THEN panel.failWith
  ELSE Response(200, JsonBody(<<"{", "p", "}">>, PageDoc(panel.total, p, panel.shape)))

PanelIdle == [total |-> 0, failAt |-> 0, failWith |-> NetError, shape |-> "paged"]

NoReturn == [has |-> FALSE, items |-> <<>>]

PagerIdle ==
  [state |-> "idle", params |-> EmptyObj, page |-> 1, results |-> <<>>,
   requests |-> <<>>, ret |-> NoReturn, err |-> ClientError]

CallerParams == {EmptyObj, [include |-> "allocations"]}

\* params with which a caller sets the page size itself
OverrideParams == {[per_page |-> 50], [per_page |-> 50, include |-> "allocations"]}

\* meta.get("current_page", 1) >= meta.get("total_pages", 1)
LastPageOff(meta) == Get(meta, "current_page", 1) > Get(meta, "total_pages", 1)

LastPage(meta) == Get(meta, "current_page", 1) >= Get(meta, "total_pages", 1)

\* a paginator that takes a missing pagination block for page 1 of 2
PaginationRequired(data) ==
  Get(Get(data, "meta", EmptyObj), "pagination", [current_page |-> 1, total_pages |-> 2])

\* data.get("meta", {}).get("pagination", {})
Pagination(data) == Get(Get(data, "meta", EmptyObj), "pagination", EmptyObj)

\* a _paginate that returns what it has when a page fails
PaginateFailedKeep(r) ==
  [pager EXCEPT !.state = "returned", !.ret = [has |-> TRUE, items |-> pager.results]]

\* the exception of _request leaves _paginate: nothing is returned
PaginateFailed(r) == [pager EXCEPT !.state = "raised", !.err = r]

\* p = {"page": page, "per_page": 100, **(params or {})}; self._request is
\* called with it and runs to session.request(...)
Requested(pg) ==
  [pg EXCEPT !.requests = Append(@, Merge([page |-> pg.page, per_page |-> PerPage], pg.params)),
             !.state = "request"]

\* what the network gives back for the request in flight
InFlight == PanelReply(pager.requests[Len(pager.requests)])

\* the rest of an iteration, _request having returned or raised r: the page
\* is added and the loop ends, or goes on to the request of the next page
Paged(r) ==
  IF r.kind # "ok" THEN PaginateFailed(r)
  ELSE LET results == pager.results \o Get(r.value, "data", <<>>)
           meta    == Pagination(r.value)
       IN  IF LastPage(meta)
             THEN [pager EXCEPT !.results = results, !.state = "returned",
                                !.ret = [has |-> TRUE, items |-> results]]
             ELSE Requested([pager EXCEPT !.results = results, !.page = @ + 1])

\* the request in flight is over, and the next one, if any, is on the session
PageEnded ==
  /\ pager' = Paged(_request("GET", InFlight))
  /\ sessions' = IF pager'.state = "request" THEN Opened(Ended(sessions)) ELSE Ended(sessions)

notPager == <<transport, panel, wizVars, control, pair, deletion, command, build>>

\* _paginate up to its first suspension: the request of page 1 is sent
PaginateSent ==
  /\ pager.state = "running"
  /\ pager' = Requested(pager)
  /\ sessions' = Opened(sessions)
  /\ UNCHANGED notPager

\* session.request(...) of the page has answered or failed: a failure of the
\* connection leaves _request and the loop; status 204 returns {}; else
\* await resp.text()
PaginateArrived ==
  /\ pager.state = "request"
  /\ IF InFlight.kind = "neterror" \/ InFlight.status = NoContent
       THEN PageEnded
       ELSE pager' = [pager EXCEPT !.state = "text"] /\ UNCHANGED sessions
  /\ UNCHANGED notPager

\* resp.text() has the body: a blank one returns {}; else await resp.json()
PaginateRead ==
  /\ pager.state = "text"
  /\ IF Strip(InFlight.body.text) = <<>>
       THEN PageEnded
       ELSE pager' = [pager EXCEPT !.state = "json"] /\ UNCHANGED sessions
  /\ UNCHANGED notPager

\* resp.json() has parsed the body or failed: the rest of _request and of
\* the iteration of the while loop
PaginateStep ==
  /\ pager.state = "json"
  /\ PageEnded
  /\ UNCHANGED notPager

(***************************************************************************)
(* Text.  Every text the wizard converts (str(id), int(value), strip,      *)
(* split) is a sequence of characters.                                     *)
(***************************************************************************)
Range(seq) == {seq[i] : i \in 1..Len(seq)}

Digits == <<"0", "1", "2", "3", "4", "5", "6", "7", "8", "9">>

\* the decimal digits of Unicode (category Nd) by value: the set at index
\* v + 1 holds the characters int() reads as v
UnicodeDigits ==
  <<
    {"0", "U+0660", "U+06F0", "U+07C0", "U+0966", "U+09E6", "U+0A66", "U+0AE6", "U+0B66",
     "U+0BE6", "U+0C66", "U+0CE6", "U+0D66", "U+0DE6", "U+0E50", "U+0ED0", "U+0F20",
     "U+1040", "U+1090", "U+17E0", "U+1810", "U+1946", "U+19D0", "U+1A80", "U+1A90",
     "U+1B50", "U+1BB0", "U+1C40", "U+1C50", "U+A620", "U+A8D0", "U+A900", "U+A9D0",
     "U+A9F0", "U+AA50", "U+ABF0", "U+FF10", "U+104A0", "U+10D30", "U+11066", "U+110F0",
     "U+11136", "U+111D0", "U+112F0", "U+11450", "U+114D0", "U+11650", "U+116C0", "U+11730",
     "U+118E0", "U+11950", "U+11C50", "U+11D50", "U+11DA0", "U+16A60", "U+16AC0", "U+16B50",
     "U+1D7CE", "U+1D7D8", "U+1D7E2", "U+1D7EC", "U+1D7F6", "U+1E140", "U+1E2F0", "U+1E950",
     "U+1FBF0"},
    {"1", "U+0661", "U+06F1", "U+07C1", "U+0967", "U+09E7", "U+0A67", "U+0AE7", "U+0B67",
     "U+0BE7", "U+0C67", "U+0CE7", "U+0D67", "U+0DE7", "U+0E51", "U+0ED1", "U+0F21",
     "U+1041", "U+1091", "U+17E1", "U+1811", "U+1947", "U+19D1", "U+1A81", "U+1A91",
     "U+1B51", "U+1BB1", "U+1C41", "U+1C51", "U+A621", "U+A8D1", "U+A901", "U+A9D1",
     "U+A9F1", "U+AA51", "U+ABF1", "U+FF11", "U+104A1", "U+10D31", "U+11067", "U+110F1",
     "U+11137", "U+111D1", "U+112F1", "U+11451", "U+114D1", "U+11651", "U+116C1", "U+11731",
     "U+118E1", "U+11951", "U+11C51", "U+11D51", "U+11DA1", "U+16A61", "U+16AC1", "U+16B51",
     "U+1D7CF", "U+1D7D9", "U+1D7E3", "U+1D7ED", "U+1D7F7", "U+1E141", "U+1E2F1", "U+1E951",
     "U+1FBF1"},
    {"2", "U+0662", "U+06F2", "U+07C2", "U+0968", "U+09E8", "U+0A68", "U+0AE8", "U+0B68",
     "U+0BE8", "U+0C68", "U+0CE8", "U+0D68", "U+0DE8", "U+0E52", "U+0ED2", "U+0F22",
     "U+1042", "U+1092", "U+17E2", "U+1812", "U+1948", "U+19D2", "U+1A82", "U+1A92",
     "U+1B52", "U+1BB2", "U+1C42", "U+1C52", "U+A622", "U+A8D2", "U+A902", "U+A9D2",
     "U+A9F2", "U+AA52", "U+ABF2", "U+FF12", "U+104A2", "U+10D32", "U+11068", "U+110F2",
     "U+11138", "U+111D2", "U+112F2", "U+11452", "U+114D2", "U+11652", "U+116C2", "U+11732",
     "U+118E2", "U+11952", "U+11C52", "U+11D52", "U+11DA2", "U+16A62", "U+16AC2", "U+16B52",
     "U+1D7D0", "U+1D7DA", "U+1D7E4", "U+1D7EE", "U+1D7F8", "U+1E142", "U+1E2F2", "U+1E952",
     "U+1FBF2"},
    {"3", "U+0663", "U+06F3", "U+07C3", "U+0969", "U+09E9", "U+0A69", "U+0AE9", "U+0B69",
     "U+0BE9", "U+0C69", "U+0CE9", "U+0D69", "U+0DE9", "U+0E53", "U+0ED3", "U+0F23",
     "U+1043", "U+1093", "U+17E3", "U+1813", "U+1949", "U+19D3", "U+1A83", "U+1A93",
     "U+1B53", "U+1BB3", "U+1C43", "U+1C53", "U+A623", "U+A8D3", "U+A903", "U+A9D3",
     "U+A9F3", "U+AA53", "U+ABF3", "U+FF13", "U+104A3", "U+10D33", "U+11069", "U+110F3",
     "U+11139", "U+111D3", "U+112F3", "U+11453", "U+114D3", "U+11653", "U+116C3", "U+11733",
     "U+118E3", "U+11953", "U+11C53", "U+11D53", "U+11DA3", "U+16A63", "U+16AC3", "U+16B53",
     "U+1D7D1", "U+1D7DB", "U+1D7E5", "U+1D7EF", "U+1D7F9", "U+1E143", "U+1E2F3", "U+1E953",
     "U+1FBF3"},
    {"4", "U+0664", "U+06F4", "U+07C4", "U+096A", "U+09EA", "U+0A6A", "U+0AEA", "U+0B6A",
     "U+0BEA", "U+0C6A", "U+0CEA", "U+0D6A", "U+0DEA", "U+0E54", "U+0ED4", "U+0F24",
     "U+1044", "U+1094", "U+17E4", "U+1814", "U+194A", "U+19D4", "U+1A84", "U+1A94",
     "U+1B54", "U+1BB4", "U+1C44", "U+1C54", "U+A624", "U+A8D4", "U+A904", "U+A9D4",
     "U+A9F4", "U+AA54", "U+ABF4", "U+FF14", "U+104A4", "U+10D34", "U+1106A", "U+110F4",
     "U+1113A", "U+111D4", "U+112F4", "U+11454", "U+114D4", "U+11654", "U+116C4", "U+11734",
     "U+118E4", "U+11954", "U+11C54", "U+11D54", "U+11DA4", "U+16A64", "U+16AC4", "U+16B54",
     "U+1D7D2", "U+1D7DC", "U+1D7E6", "U+1D7F0", "U+1D7FA", "U+1E144", "U+1E2F4", "U+1E954",
     "U+1FBF4"},
    {"5", "U+0665", "U+06F5", "U+07C5", "U+096B", "U+09EB", "U+0A6B", "U+0AEB", "U+0B6B",
     "U+0BEB", "U+0C6B", "U+0CEB", "U+0D6B", "U+0DEB", "U+0E55", "U+0ED5", "U+0F25",
     "U+1045", "U+1095", "U+17E5", "U+1815", "U+194B", "U+19D5", "U+1A85", "U+1A95",
     "U+1B55", "U+1BB5", "U+1C45", "U+1C55", "U+A625", "U+A8D5", "U+A905", "U+A9D5",
     "U+A9F5", "U+AA55", "U+ABF5", "U+FF15", "U+104A5", "U+10D35", "U+1106B", "U+110F5",
     "U+1113B", "U+111D5", "U+112F5", "U+11455", "U+114D5", "U+11655", "U+116C5", "U+11735",
     "U+118E5", "U+11955", "U+11C55", "U+11D55", "U+11DA5", "U+16A65", "U+16AC5", "U+16B55",
     "U+1D7D3", "U+1D7DD", "U+1D7E7", "U+1D7F1", "U+1D7FB", "U+1E145", "U+1E2F5", "U+1E955",
     "U+1FBF5"},
    {"6", "U+0666", "U+06F6", "U+07C6", "U+096C", "U+09EC", "U+0A6C", "U+0AEC", "U+0B6C",
     "U+0BEC", "U+0C6C", "U+0CEC", "U+0D6C", "U+0DEC", "U+0E56", "U+0ED6", "U+0F26",
     "U+1046", "U+1096", "U+17E6", "U+1816", "U+194C", "U+19D6", "U+1A86", "U+1A96",
     "U+1B56", "U+1BB6", "U+1C46", "U+1C56", "U+A626", "U+A8D6", "U+A906", "U+A9D6",
     "U+A9F6", "U+AA56", "U+ABF6", "U+FF16", "U+104A6", "U+10D36", "U+1106C", "U+110F6",
     "U+1113C", "U+111D6", "U+112F6", "U+11456", "U+114D6", "U+11656", "U+116C6", "U+11736",
     "U+118E6", "U+11956", "U+11C56", "U+11D56", "U+11DA6", "U+16A66", "U+16AC6", "U+16B56",
     "U+1D7D4", "U+1D7DE", "U+1D7E8", "U+1D7F2", "U+1D7FC", "U+1E146", "U+1E2F6", "U+1E956",
     "U+1FBF6"},
    {"7", "U+0667", "U+06F7", "U+07C7", "U+096D", "U+09ED", "U+0A6D", "U+0AED", "U+0B6D",
     "U+0BED", "U+0C6D", "U+0CED", "U+0D6D", "U+0DED", "U+0E57", "U+0ED7", "U+0F27",
     "U+1047", "U+1097", "U+17E7", "U+1817", "U+194D", "U+19D7", "U+1A87", "U+1A97",
     "U+1B57", "U+1BB7", "U+1C47", "U+1C57", "U+A627", "U+A8D7", "U+A907", "U+A9D7",
     "U+A9F7", "U+AA57", "U+ABF7", "U+FF17", "U+104A7", "U+10D37", "U+1106D", "U+110F7",
     "U+1113D", "U+111D7", "U+112F7", "U+11457", "U+114D7", "U+11657", "U+116C7", "U+11737",
     "U+118E7", "U+11957", "U+11C57", "U+11D57", "U+11DA7", "U+16A67", "U+16AC7", "U+16B57",
     "U+1D7D5", "U+1D7DF", "U+1D7E9", "U+1D7F3", "U+1D7FD", "U+1E147", "U+1E2F7", "U+1E957",
     "U+1FBF7"},
    {"8", "U+0668", "U+06F8", "U+07C8", "U+096E", "U+09EE", "U+0A6E", "U+0AEE", "U+0B6E",
     "U+0BEE", "U+0C6E", "U+0CEE", "U+0D6E", "U+0DEE", "U+0E58", "U+0ED8", "U+0F28",
     "U+1048", "U+1098", "U+17E8", "U+1818", "U+194E", "U+19D8", "U+1A88", "U+1A98",
     "U+1B58", "U+1BB8", "U+1C48", "U+1C58", "U+A628", "U+A8D8", "U+A908", "U+A9D8",
     "U+A9F8", "U+AA58", "U+ABF8", "U+FF18", "U+104A8", "U+10D38", "U+1106E", "U+110F8",
     "U+1113E", "U+111D8", "U+112F8", "U+11458", "U+114D8", "U+11658", "U+116C8", "U+11738",
     "U+118E8", "U+11958", "U+11C58", "U+11D58", "U+11DA8", "U+16A68", "U+16AC8", "U+16B58",
     "U+1D7D6", "U+1D7E0", "U+1D7EA", "U+1D7F4", "U+1D7FE", "U+1E148", "U+1E2F8", "U+1E958",
     "U+1FBF8"},
    {"9", "U+0669", "U+06F9", "U+07C9", "U+096F", "U+09EF", "U+0A6F", "U+0AEF", "U+0B6F",
     "U+0BEF", "U+0C6F", "U+0CEF", "U+0D6F", "U+0DEF", "U+0E59", "U+0ED9", "U+0F29",
     "U+1049", "U+1099", "U+17E9", "U+1819", "U+194F", "U+19D9", "U+1A89", "U+1A99",
     "U+1B59", "U+1BB9", "U+1C49", "U+1C59", "U+A629", "U+A8D9", "U+A909", "U+A9D9",
     "U+A9F9", "U+AA59", "U+ABF9", "U+FF19", "U+104A9", "U+10D39", "U+1106F", "U+110F9",
     "U+1113F", "U+111D9", "U+112F9", "U+11459", "U+114D9", "U+11659", "U+116C9", "U+11739",
     "U+118E9", "U+11959", "U+11C59", "U+11D59", "U+11DA9", "U+16A69", "U+16AC9", "U+16B59",
     "U+1D7D7", "U+1D7E1", "U+1D7EB", "U+1D7F5", "U+1D7FF", "U+1E149", "U+1E2F9", "U+1E959",
     "U+1FBF9"}
  >>

AllDigits == UNION {UnicodeDigits[d] : d \in 1..10}

DigitVal(c) == (CHOOSE d \in 1..10 : c \in UnicodeDigits[d]) - 1

RECURSIVE NatToStr(_)
NatToStr(n) ==
  IF n < 10 THEN <<Digits[n + 1]>> ELSE NatToStr(n \div 10) \o <<Digits[(n % 10) + 1]>>

\* str(n)
IntToStr(n) == IF n < 0 THEN <<"-">> \o NatToStr(-n) ELSE NatToStr(n)

RECURSIVE DigitsValue(_)
DigitsValue(d) ==
  IF d = <<>> THEN 0 ELSE 10 * DigitsValue(SubSeq(d, 1, Len(d) - 1)) + DigitVal(d[Len(d)])

\* the whitespace int() skips around the number: that of str.strip() without
\* the four separators U+001C..U+001F
IntSpace == Whitespace \ {"U+001C", "U+001D", "U+001E", "U+001F"}

RECURSIVE TrimLeft(_, _)
TrimLeft(t, set) == IF t # <<>> /\ Head(t) \in set THEN TrimLeft(Tail(t), set) ELSE t

RECURSIVE TrimRight(_, _)
TrimRight(t, set) ==
  IF t # <<>> /\ t[Len(t)] \in set THEN TrimRight(SubSeq(t, 1, Len(t) - 1), set) ELSE t

NotUnderscore(c) == c # "_"

\* int(text): surrounding whitespace, one sign, then decimal digits with
\* single underscores between them; anything else raises ValueError
\* (ok = FALSE)
ParseInt(text) ==
  LET s      == TrimRight(TrimLeft(text, IntSpace), IntSpace)
      signed == s # <<>> /\ s[1] \in {"+", "-"}
      d      == IF signed THEN Tail(s) ELSE s
      ok     == /\ d # <<>>
                /\ \A i \in 1..Len(d) : d[i] \in AllDigits \cup {"_"}
                /\ d[1] # "_"
                /\ d[Len(d)] # "_"
                /\ \A i \in 1..(Len(d) - 1) : ~(d[i] = "_" /\ d[i + 1] = "_")
      digits == SelectSeq(d, NotUnderscore)
  IN  [ok  |-> ok,
       val |-> IF ~ok THEN 0
               ELSE IF signed /\ s[1] = "-" THEN 0 - DigitsValue(digits)
               ELSE DigitsValue(digits)]

\* img.split(":")[-1] if ":" in img else img
RECURSIVE AfterLastColon(_)
AfterLastColon(t) ==
  IF \E i \in 1..Len(t) : t[i] = ":"
    THEN AfterLastColon(SubSeq(t, (CHOOSE i \in 1..Len(t) : t[i] = ":" /\ \A j \in 1..(i - 1) : t[j] # ":") + 1, Len(t)))
    ELSE t

(***************************************************************************)
(* CreationState: the state bag passed through all creation steps.         *)
(***************************************************************************)
DefaultMemory == 1024

DefaultDisk == 5120

DefaultCpu == 100

DefaultSwap == 0

DefaultIo == 500

CreationState ==
  [name |-> <<>>, description |-> <<>>, external_id |-> <<>>,
   user_id |-> 0, node_id |-> 0, nest_id |-> 0, egg_id |-> 0, egg_name |-> <<>>,
   alloc_id |-> 0,
   docker_image |-> <<>>, docker_images |-> <<>>,
   startup |-> <<>>, env_vars |-> EmptyObj,
   memory |-> DefaultMemory, disk |-> DefaultDisk, cpu |-> DefaultCpu,
   swap |-> DefaultSwap, io |-> DefaultIo]

(***************************************************************************)
(* The panel's answers to the wizard's lookups.  A listing call returns    *)
(* the panel's list, or an empty list, or raises what _request raises.     *)
(***************************************************************************)
Envelope(attr) == [object |-> "item", attributes |-> attr]

PanelUsers == <<Envelope([id |-> 1]), Envelope([id |-> 2])>>

PanelNodes == <<Envelope([id |-> 1]), Envelope([id |-> 2])>>

PanelNests == <<Envelope([id |-> 1])>>

PanelEggs ==
  <<Envelope([id |-> 1]), Envelope([id |-> 2]), Envelope([id |-> 3]), Envelope([id |-> 4])>>

\* node 1 has free ports, node 2 has none left
PanelAllocations(node) ==
  IF node = 1
    THEN <<Envelope([id |-> 1, assigned |-> TRUE]),
           Envelope([id |-> 2, assigned |-> FALSE]),
           Envelope([id |-> 3])>>
    ELSE <<Envelope([id |-> 4, assigned |-> TRUE])>>

Variable(key, isNull, value) ==
  Envelope([env_variable |-> key, default_value |-> [null |-> isNull, text |-> value]])

T_java17 == <<"i", ":", "1", "7">>

T_java8 == <<"i", ":", "8">>

T_legacy == <<"r", ":", "5", "/", "i", ":", "j", "_", "1", "7">>

T_plain == <<"i", "m", "g">>

\* GET /nests/{nest}/eggs/{egg}?include=variables,...
EggDetail(egg) ==
  IF egg = 1
    THEN Envelope([name |-> <<"P">>,
                   docker_images |-> [isDict |-> TRUE,
                                      items |-> <<[label |-> <<"J", "1", "7">>, tag |-> T_java17],
                                                  [label |-> <<"J", "8">>, tag |-> T_java8]>>],
                   docker_image |-> T_java17,
                   startup |-> <<"j", "a", "v", "a">>,
                   relationships |-> [variables |-> [data |->
                      <<Variable(<<"J", "A", "R">>, FALSE, <<"s", ".", "j">>),
                        Variable(<<"M">>, TRUE, <<>>),
                        Variable(<<>>, FALSE, <<"x">>)>>]]])
  ELSE IF egg = 2
    THEN Envelope([name |-> <<"L">>,
                   docker_images |-> [isDict |-> FALSE, items |-> <<>>],
                   docker_image |-> T_legacy,
                   startup |-> <<"r", "u", "n">>])
  ELSE IF egg = 3
    THEN Envelope([id |-> egg])
  ELSE Envelope([name |-> <<"E">>,
                 docker_images |-> [isDict |-> TRUE, items |-> <<>>],
                 docker_image |-> T_plain])

ListOutcomes(items) ==
  {Returned(items), Returned(<<>>)} \cup {_request("GET", f) : f \in FailureOutcomes}

DetailOutcomes(doc) == {Returned(doc)} \cup {_request("GET", f) : f \in FailureOutcomes}

ServerDoc == Envelope([id |-> 9, name |-> <<"s">>, uuid |-> <<"u">>,
                       limits |-> [memory |-> 8, disk |-> 8, cpu |-> 8]])

\* POST /servers: created, created with an empty body, rejected, or no answer
CreateOutcomes ==
  { _request("POST", Response(201, JsonBody(<<"{", "s", "}">>, ServerDoc))),
    _request("POST", Response(201, RawBody(<<>>))),
    _request("POST", Response(422, JsonBody(<<"{", "e", "}">>, ErrorsDoc))),
    _request("POST", NetError) }

(***************************************************************************)
(* Views, modals and handler coroutines.                                   *)
(*                                                                         *)
(* A component event starts a handler only while its view is not stopped;  *)
(* the handler then runs to its first await.  stop() takes effect where    *)
(* the handler calls it.  A modal is submitted once per showing and is     *)
(* stopped when on_submit returns normally.  An exception that leaves a    *)
(* handler is logged by the library; nothing is shown to the user.         *)
(***************************************************************************)
MaxRaces == 1

MaxOptions == 25

ViewTimeout == 180

ReviewTimeout == 120

\* the idle window of a stage's view in seconds; 0 stands for timeout=None,
\* which is what the two modals are constructed with
Timeout(stage) ==
  IF stage \in {"Basics", "Resources"} THEN 0
  ELSE IF stage = "Review" THEN ReviewTimeout
  ELSE ViewTimeout

NewView(stage, options) ==
  [stage |-> stage, stopped |-> FALSE, options |-> options, clicks |-> 0, rejected |-> FALSE,
   expired |-> FALSE]

\* the idle window of a message's stage has passed since its last input: a
\* view with a timeout is stopped by the library's timer, its own for every
\* view, and one without stays as it is; handlers in flight go on.  A
\* timer that fires on a view that has had an input counts as a race
IdleWindowPassed(v) ==
  /\ ~views[v].stopped
  /\ ~views[v].expired
  /\ views' = [views EXCEPT ![v].expired = TRUE,
                            ![v].stopped = IF Timeout(views[v].stage) > 0 THEN TRUE ELSE @]
  /\ races' = IF views[v].clicks > 0 THEN races + 1 ELSE races
  /\ UNCHANGED <<state, tasks, calls, log, apiVars, control>>

\* the bound of a specification on the timers that fire after an input
InTime(v, bound) == views[v].clicks > 0 => races < bound

\* an event on view v that does not wait its turn: the view already got an
\* event, a later message has been sent, or a handler is still in flight
OutOfTurn(v) == views[v].clicks > 0 \/ v # Len(views) \/ tasks # {}

\* View._dispatch_item: a component of view v, at the given stage, accepts
\* an event until the view is stopped or has timed out
CanDispatch(v, stage) ==
  /\ views[v].stage = stage
  /\ ~views[v].stopped

\* the bound of a specification on the events that arrive out of turn
Within(v, bound) == OutOfTurn(v) => races < bound

\* a modal shown to the user can be submitted once
CanSubmit(v, stage) ==
  /\ v = Len(views)
  /\ views[v].stage = stage
  /\ ~views[v].stopped
  /\ views[v].clicks = 0

Clicked(v) == [views EXCEPT ![v].clicks = @ + 1]

Raced(v) == IF OutOfTurn(v) THEN races + 1 ELSE races

Stopped(vs, v) == [vs EXCEPT ![v].stopped = TRUE]

NewTask(v, stage, id, texts) ==
  [view |-> v, n |-> views[v].clicks + 1, stage |-> stage, pc |-> "defer",
   id |-> id, texts |-> texts, payload |-> EmptyObj]

At(t, stage, pc) == t \in tasks /\ t.stage = stage /\ t.pc = pc

Moved(t, pc) == (tasks \ {t}) \cup {[t EXCEPT !.pc = pc]}

Called(op) == [calls EXCEPT ![op] = @ + 1]

NoMessage == [kind |-> "none", prefix |-> "", body |-> [kind |-> "none"]]

\* error_embed(e.message), with the text the handler puts before it
ErrorEmbed(prefix, body) == [kind |-> "error", prefix |-> prefix, body |-> body]

Literal(text) == [kind |-> "literal", text |-> text]

NextStepEmbed(stage) == [kind |-> "step", prefix |-> stage, body |-> [kind |-> "none"]]

Done(t, outcome, msg) ==
  log \cup {[view |-> t.view, n |-> t.n, stage |-> t.stage, outcome |-> outcome, msg |-> msg]}

\* [str(x["attributes"]["id"]) for x in items[:25]]
IdOptions(items) ==
  LET shown == Take(items, MaxOptions)
  IN  [i \in 1..Len(shown) |-> IntToStr(shown[i].attributes.id)]

\* what a handler does with the result of its listing call: the except
\* branch, the empty branch, or the next step's view
AfterLookup(t, r, emptyText, errPrefix, nextStage, nextOptions, vs) ==
  IF r.kind = "PterodactylError"
    THEN /\ log' = Done(t, "apierror", ErrorEmbed(errPrefix, r.message))
         /\ views' = vs
  ELSE IF r.kind # "ok"
    THEN /\ log' = Done(t, "exception", NoMessage)
         /\ views' = vs
  ELSE IF nextOptions = <<>>
    THEN /\ log' = Done(t, "empty", ErrorEmbed("", Literal(emptyText)))
         /\ views' = vs
  ELSE /\ log' = Done(t, "advanced", NextStepEmbed(nextStage))
       /\ views' = Append(vs, NewView(nextStage, nextOptions))

(***************************************************************************)
(* Step 1: Step1Modal (Basics)                                             *)
(***************************************************************************)
\* <<name, description, external_id>> as typed into the modal
BasicsInputs == {<<<<"s", "1">>, <<>>, <<>>>>, <<<<" ", "s">>, <<"d", " ">>, <<"e">>>>}

\* the user submits the modal; on_submit runs to `await defer`
Step1Submit(v, name, description, external_id) ==
  /\ CanSubmit(v, "Basics")
  /\ views' = Clicked(v)
  /\ tasks' = tasks \cup {NewTask(v, "Basics", 0, <<name, description, external_id>>)}
  /\ UNCHANGED <<state, calls, log, races, apiVars, control>>

\* state = CreationState(); the three fields; await list_users()
Step1Deferred(t) ==
  /\ At(t, "Basics", "defer")
  /\ state' = [CreationState EXCEPT !.name = Strip(t.texts[1]),
                                    !.description = Strip(t.texts[2]),
                                    !.external_id = Strip(t.texts[3])]
  /\ calls' = Called("list_users")
  /\ tasks' = Moved(t, "lookup")
  /\ UNCHANGED <<views, log, races, apiVars, control>>

Step1Looked(t, r) ==
  /\ At(t, "Basics", "lookup")
  /\ r \in ListOutcomes(PanelUsers)
  /\ AfterLookup(t, r, "No panel users found. Create a user first.", "", "Owner",
                 IF r.kind = "ok" THEN IdOptions(r.value) ELSE <<>>,
                 IF r.kind \in {"ok", "PterodactylError"} THEN Stopped(views, t.view) ELSE views)
  /\ tasks' = tasks \ {t}
  /\ UNCHANGED <<state, calls, races, apiVars, control>>

(***************************************************************************)
(* Step 2: Step2UserSelect (Owner)                                         *)
(***************************************************************************)
\* an owner step that records the choice in a record of its own
Step2SelectOwnRecord(v, x) ==
  /\ CanDispatch(v, "Owner")
  /\ x \in Range(views[v].options)
  /\ state' = [CreationState EXCEPT !.user_id = ParseInt(x).val]
  /\ tasks' = tasks \cup {NewTask(v, "Owner", 0, <<>>)}
  /\ views' = Clicked(v)
  /\ races' = Raced(v)
  /\ UNCHANGED <<calls, log, apiVars, control>>

\* self.state.user_id = int(values[0]); await defer
Step2Select(v, x) ==
  /\ CanDispatch(v, "Owner")
  /\ x \in Range(views[v].options)
  /\ state' = [state EXCEPT !.user_id = ParseInt(x).val]
  /\ tasks' = tasks \cup {NewTask(v, "Owner", 0, <<>>)}
  /\ views' = Clicked(v)
  /\ races' = Raced(v)
  /\ UNCHANGED <<calls, log, apiVars, control>>

\* self.stop(); await list_nodes()
Step2Deferred(t) ==
  /\ At(t, "Owner", "defer")
  /\ views' = Stopped(views, t.view)
  /\ calls' = Called("list_nodes")
  /\ tasks' = Moved(t, "lookup")
  /\ UNCHANGED <<state, log, races, apiVars, control>>

Step2Looked(t, r) ==
  /\ At(t, "Owner", "lookup")
  /\ r \in ListOutcomes(PanelNodes)
  /\ AfterLookup(t, r, "No nodes found. Create a node first.", "", "Node",
                 IF r.kind = "ok" THEN IdOptions(r.value) ELSE <<>>, views)
  /\ tasks' = tasks \ {t}
  /\ UNCHANGED <<state, calls, races, apiVars, control>>

(***************************************************************************)
(* Step 3: Step3NodeSelect (Node)                                          *)
(***************************************************************************)
\* self.state.node_id = int(values[0]); await defer
Step3Select(v, x) ==
  /\ CanDispatch(v, "Node")
  /\ x \in Range(views[v].options)
  /\ state' = [state EXCEPT !.node_id = ParseInt(x).val]
  /\ tasks' = tasks \cup {NewTask(v, "Node", 0, <<>>)}
  /\ views' = Clicked(v)
  /\ races' = Raced(v)
  /\ UNCHANGED <<calls, log, apiVars, control>>

\* self.stop(); await list_nests()
Step3Deferred(t) ==
  /\ At(t, "Node", "defer")
  /\ views' = Stopped(views, t.view)
  /\ calls' = Called("list_nests")
  /\ tasks' = Moved(t, "lookup")
  /\ UNCHANGED <<state, log, races, apiVars, control>>

Step3Looked(t, r) ==
  /\ At(t, "Node", "lookup")
  /\ r \in ListOutcomes(PanelNests)
  /\ AfterLookup(t, r, "No nests found.", "", "Family",
                 IF r.kind = "ok" THEN IdOptions(r.value) ELSE <<>>, views)
  /\ tasks' = tasks \ {t}
  /\ UNCHANGED <<state, calls, races, apiVars, control>>

(***************************************************************************)
(* Step 4: Step4NestSelect (Family)                                        *)
(***************************************************************************)
\* nest_id = int(values[0]); self.state.nest_id = nest_id; await defer
Step4Select(v, x) ==
  /\ CanDispatch(v, "Family")
  /\ x \in Range(views[v].options)
  /\ state' = [state EXCEPT !.nest_id = ParseInt(x).val]
  /\ tasks' = tasks \cup {NewTask(v, "Family", ParseInt(x).val, <<>>)}
  /\ views' = Clicked(v)
  /\ races' = Raced(v)
  /\ UNCHANGED <<calls, log, apiVars, control>>

\* self.stop(); await list_eggs(nest_id)
Step4Deferred(t) ==
  /\ At(t, "Family", "defer")
  /\ views' = Stopped(views, t.view)
  /\ calls' = Called("list_eggs")
  /\ tasks' = Moved(t, "lookup")
  /\ UNCHANGED <<state, log, races, apiVars, control>>

Step4Looked(t, r) ==
  /\ At(t, "Family", "lookup")
  /\ r \in ListOutcomes(PanelEggs)
  /\ AfterLookup(t, r, "This nest has no eggs. Choose a different nest.", "", "Template",
                 IF r.kind = "ok" THEN IdOptions(r.value) ELSE <<>>, views)
  /\ tasks' = tasks \ {t}
  /\ UNCHANGED <<state, calls, races, apiVars, control>>

(***************************************************************************)
(* Step 5: Step5EggSelect (Template)                                       *)
(***************************************************************************)
FallbackLabel == <<"d", "e", "f", "a", "u", "l", "t">>

FallbackImage ==
  <<"g", "h", "c", "r", ".", "i", "o", "/", "p", "t", "e", "r",
    "o", "d", "a", "c", "t", "y", "l", "/", "y", "o", "l", "k", "s", ":", "j", "a", "v", "a", "_", "1", "7">>

\* a derivation that labels the single docker_image with the whole image
DockerImagesWholeLabel(attr) ==
  LET raw   == Get(attr, "docker_images", [isDict |-> TRUE, items |-> <<>>])
      first == IF raw.isDict THEN raw.items ELSE <<>>
      img   == Get(attr, "docker_image", <<>>)
      second == IF first = <<>> /\ img # <<>> THEN <<[label |-> img, tag |-> img]>> ELSE first
  IN  IF second = <<>> THEN <<[label |-> FallbackLabel, tag |-> FallbackImage]>> ELSE second

\* the docker images offered for an egg: its docker_images dict, else its
\* single docker_image under the tag after the last colon, else the default
DockerImages(attr) ==
  LET raw   == Get(attr, "docker_images", [isDict |-> TRUE, items |-> <<>>])
      first == IF raw.isDict THEN raw.items ELSE <<>>
      img   == Get(attr, "docker_image", <<>>)
      second == IF first = <<>> /\ img # <<>>
                  THEN <<[label |-> AfterLastColon(img), tag |-> img]>>
                  ELSE first
  IN  IF second = <<>> THEN <<[label |-> FallbackLabel, tag |-> FallbackImage]>> ELSE second

\* env_vars[key] = default_value or "" for every variable with a key
RECURSIVE EnvVars(_)
EnvVars(data) ==
  IF data = <<>> THEN EmptyObj
  ELSE LET rest == EnvVars(SubSeq(data, 1, Len(data) - 1))
           va   == Get(data[Len(data)], "attributes", EmptyObj)
           key  == Get(va, "env_variable", <<>>)
           val  == Get(va, "default_value", [null |-> FALSE, text |-> <<>>])
       IN  IF key # <<>>
             THEN Merge(rest, [k \in {key} |-> IF val.null THEN <<>> ELSE val.text])
             ELSE rest

\* [image_tag for display_name, image_tag in docker_images.items()][:25]
ImageOptions(images) ==
  LET shown == Take(images, MaxOptions)
  IN  [i \in 1..Len(shown) |-> shown[i].tag]

\* egg_id = int(values[0]); self.state.egg_id = egg_id; await defer
Step5Select(v, x) ==
  /\ CanDispatch(v, "Template")
  /\ x \in Range(views[v].options)
  /\ state' = [state EXCEPT !.egg_id = ParseInt(x).val]
  /\ tasks' = tasks \cup {NewTask(v, "Template", ParseInt(x).val, <<>>)}
  /\ views' = Clicked(v)
  /\ races' = Raced(v)
  /\ UNCHANGED <<calls, log, apiVars, control>>

\* self.stop(); await get_egg(self.state.nest_id, egg_id)
Step5Deferred(t) ==
  /\ At(t, "Template", "defer")
  /\ views' = Stopped(views, t.view)
  /\ calls' = Called("get_egg")
  /\ tasks' = Moved(t, "lookup")
  /\ UNCHANGED <<state, log, races, apiVars, control>>

\* the egg's name, images, startup and variables go into the state; then
\* the image picker is sent
Step5Looked(t, r) ==
  /\ At(t, "Template", "lookup")
  /\ r \in DetailOutcomes(EggDetail(t.id))
  /\ tasks' = tasks \ {t}
  /\ IF r.kind = "PterodactylError"
       THEN /\ log' = Done(t, "apierror", ErrorEmbed("Could not load egg details:", r.message))
            /\ UNCHANGED <<state, views>>
     ELSE IF r.kind # "ok"
       THEN /\ log' = Done(t, "exception", NoMessage)
            /\ UNCHANGED <<state, views>>
     ELSE LET attr   == Get(r.value, "attributes", EmptyObj)
              images == DockerImages(attr)
              vars_  == Get(Get(Get(attr, "relationships", EmptyObj), "variables", EmptyObj),
                            "data", <<>>)
          IN  /\ state' = [state EXCEPT !.egg_name = Get(attr, "name", IntToStr(t.id)),
                                        !.docker_images = images,
                                        !.startup = Get(attr, "startup", <<>>),
                                        !.env_vars = EnvVars(vars_)]
              /\ log' = Done(t, "advanced", NextStepEmbed("Image"))
              /\ views' = Append(views, NewView("Image", ImageOptions(images)))
  /\ UNCHANGED <<calls, races, apiVars, control>>

(***************************************************************************)
(* Step 5b: Step5bDockerSelect (Image)                                     *)
(***************************************************************************)
\* an image step that defers without recording the chosen image
Step5bSelectUnrecorded(v, x) ==
  /\ CanDispatch(v, "Image")
  /\ x \in Range(views[v].options)
  /\ tasks' = tasks \cup {NewTask(v, "Image", 0, <<>>)}
  /\ views' = Clicked(v)
  /\ races' = Raced(v)
  /\ UNCHANGED <<state, calls, log, apiVars, control>>

\* self.state.docker_image = values[0]; await defer
Step5bSelect(v, x) ==
  /\ CanDispatch(v, "Image")
  /\ x \in Range(views[v].options)
  /\ state' = [state EXCEPT !.docker_image = x]
  /\ tasks' = tasks \cup {NewTask(v, "Image", 0, <<>>)}
  /\ views' = Clicked(v)
  /\ races' = Raced(v)
  /\ UNCHANGED <<calls, log, apiVars, control>>

\* self.stop(); await list_allocations(self.state.node_id)
Step5bDeferred(t) ==
  /\ At(t, "Image", "defer")
  /\ views' = Stopped(views, t.view)
  /\ calls' = Called("list_allocations")
  /\ tasks' = (tasks \ {t}) \cup {[t EXCEPT !.pc = "lookup", !.id = state.node_id]}
  /\ UNCHANGED <<state, log, races, apiVars, control>>

\* [a for a in allocs if not a["attributes"].get("assigned", False)]
RECURSIVE FreeAllocations(_)
FreeAllocations(allocs) ==
  IF allocs = <<>> THEN <<>>
  ELSE LET rest == FreeAllocations(SubSeq(allocs, 1, Len(allocs) - 1))
           a    == allocs[Len(allocs)]
       IN  IF ~Get(a.attributes, "assigned", FALSE) THEN Append(rest, a) ELSE rest

\* free = the unassigned allocations; none -> error, else the Allocation view
Step5bLooked(t, r) ==
  /\ At(t, "Image", "lookup")
  /\ r \in ListOutcomes(PanelAllocations(t.id))
  /\ AfterLookup(t, r, "No free allocations on node.", "Could not load allocations:",
                 "Allocation",
                 IF r.kind = "ok" THEN IdOptions(FreeAllocations(r.value)) ELSE <<>>, views)
  /\ tasks' = tasks \ {t}
  /\ UNCHANGED <<state, calls, races, apiVars, control>>

(***************************************************************************)
(* Step 6: Step6AllocSelect (Allocation)                                   *)
(***************************************************************************)
\* self.state.alloc_id = int(values[0]); self.stop(); send_modal(Step7)
Step6Select(v, x) ==
  /\ CanDispatch(v, "Allocation")
  /\ x \in Range(views[v].options)
  /\ state' = [state EXCEPT !.alloc_id = ParseInt(x).val]
  /\ views' = Append(Stopped(Clicked(v), v), NewView("Resources", <<>>))
  /\ log' = log \cup {[view |-> v, n |-> views[v].clicks + 1, stage |-> "Allocation",
                       outcome |-> "advanced", msg |-> NextStepEmbed("Resources")]}
  /\ races' = Raced(v)
  /\ UNCHANGED <<tasks, calls, apiVars, control>>

(***************************************************************************)
(* Step 7: Step7ResourcesModal (Resources)                                 *)
(***************************************************************************)
IoMin == 10

IoMax == 1000

\* <<memory, disk, cpu, swap, io>> as typed into the modal
ResourceInputs ==
  { <<<<"8">>, <<"9">>, <<"5", "0">>, <<"0">>, <<"5">>>>,
    <<<<"8">>, <<"9">>, <<"5", "0">>, <<"-", "1">>, <<"5", "0", "0", "0">>>>,
    <<<<" ", "7">>, <<"9">>, <<"5", "0">>, <<"0">>, <<"5", "0", "0">>>>,
    <<<<"8">>, <<"x">>, <<"5", "0">>, <<"0">>, <<"5">>>>,
    <<<<"x">>, <<"9">>, <<"5", "0">>, <<"0">>, <<"5">>>>,
    <<<<"8">>, <<"9">>, <<"5", "0">>, <<"0">>, <<"1", ".", "5">>>> }

\* the user submits the five fields; on_submit runs to `await defer`
Step7Submit(v, memory, disk, cpu, swap, io) ==
  /\ CanSubmit(v, "Resources")
  /\ views' = Clicked(v)
  /\ tasks' = tasks \cup {NewTask(v, "Resources", 0, <<memory, disk, cpu, swap, io>>)}
  /\ UNCHANGED <<state, calls, log, races, apiVars, control>>

\* the index of the first field int() rejects, 0 when all five are integers
FirstBad(texts) ==
  IF \A i \in 1..Len(texts) : ParseInt(texts[i]).ok THEN 0
  ELSE CHOOSE i \in 1..Len(texts) :
         ~ParseInt(texts[i]).ok /\ \A j \in 1..(i - 1) : ParseInt(texts[j]).ok

\* a try block that stores the io weight as submitted
AssignResourcesUnclamped(s, texts) ==
  LET bad  == FirstBad(texts)
      upto == IF bad = 0 THEN Len(texts) ELSE bad - 1
  IN  [s EXCEPT !.memory = IF upto >= 1 THEN ParseInt(texts[1]).val ELSE @,
                !.disk   = IF upto >= 2 THEN ParseInt(texts[2]).val ELSE @,
                !.cpu    = IF upto >= 3 THEN ParseInt(texts[3]).val ELSE @,
                !.swap   = IF upto >= 4 THEN ParseInt(texts[4]).val ELSE @,
                !.io     = IF upto >= 5 THEN ParseInt(texts[5]).val ELSE @]

\* the try block: the assignments run in order and stop at the first
\* ValueError; what was assigned before it stays assigned
AssignResources(s, texts) ==
  LET bad  == FirstBad(texts)
      upto == IF bad = 0 THEN Len(texts) ELSE bad - 1
  IN  [s EXCEPT !.memory = IF upto >= 1 THEN ParseInt(texts[1]).val ELSE @,
                !.disk   = IF upto >= 2 THEN ParseInt(texts[2]).val ELSE @,
                !.cpu    = IF upto >= 3 THEN ParseInt(texts[3]).val ELSE @,
                !.swap   = IF upto >= 4 THEN ParseInt(texts[4]).val ELSE @,
                !.io     = IF upto >= 5
                             THEN Max(IoMin, Min(IoMax, ParseInt(texts[5]).val)) ELSE @]

\* after defer: the try block, then the error message or the review view;
\* on_submit returns normally either way and the modal is stopped
Step7Deferred(t) ==
  /\ At(t, "Resources", "defer")
  /\ state' = AssignResources(state, t.texts)
  /\ tasks' = tasks \ {t}
  /\ IF FirstBad(t.texts) # 0
       THEN /\ log' = Done(t, "validation",
                           ErrorEmbed("", Literal("All resource fields must be whole numbers.")))
            /\ views' = [Stopped(views, t.view) EXCEPT ![t.view].rejected = TRUE]
       ELSE /\ log' = Done(t, "advanced", NextStepEmbed("Review"))
            /\ views' = Append(Stopped(views, t.view), NewView("Review", <<>>))
  /\ UNCHANGED <<calls, races, apiVars, control>>

(***************************************************************************)
(* Step 8: Step8ConfirmView (Review)                                       *)
(***************************************************************************)
FeatureDatabases == 5

FeatureBackups == 3

FeatureAllocations == 1

\* a payload that always carries the description and external_id keys
CreatePayloadAllKeys(s) ==
  [name |-> s.name, user |-> s.user_id, egg |-> s.egg_id,
   docker_image |-> s.docker_image, startup |-> s.startup, environment |-> s.env_vars,
   limits |-> [memory |-> s.memory, swap |-> s.swap, disk |-> s.disk, io |-> s.io,
               cpu |-> s.cpu],
   feature_limits |-> [databases |-> FeatureDatabases, backups |-> FeatureBackups,
                       allocations |-> FeatureAllocations],
   allocation |-> [default |-> s.alloc_id],
   start_on_completion |-> FALSE, skip_scripts |-> FALSE,
   description |-> s.description, external_id |-> s.external_id]

\* the payload of confirm(), optional keys only when non-empty
CreatePayload(s) ==
  LET base == [name |-> s.name, user |-> s.user_id, egg |-> s.egg_id,
               docker_image |-> s.docker_image, startup |-> s.startup,
               environment |-> s.env_vars,
               limits |-> [memory |-> s.memory, swap |-> s.swap, disk |-> s.disk,
                           io |-> s.io, cpu |-> s.cpu],
               feature_limits |-> [databases |-> FeatureDatabases, backups |-> FeatureBackups,
                                   allocations |-> FeatureAllocations],
               allocation |-> [default |-> s.alloc_id],
               start_on_completion |-> FALSE, skip_scripts |-> FALSE]
      d    == IF s.description # <<>> THEN [description |-> s.description] ELSE EmptyObj
      e    == IF s.external_id # <<>> THEN [external_id |-> s.external_id] ELSE EmptyObj
  IN  Merge(Merge(base, d), e)

\* Create Server pressed: confirm() runs to `await defer`
Step8Confirm(v) ==
  /\ CanDispatch(v, "Review")
  /\ tasks' = tasks \cup {NewTask(v, "Review", 0, <<>>)}
  /\ views' = Clicked(v)
  /\ races' = Raced(v)
  /\ UNCHANGED <<state, calls, log, apiVars, control>>

\* self.stop(); the payload is built; await create_server(payload)
Step8Deferred(t) ==
  /\ At(t, "Review", "defer")
  /\ views' = Stopped(views, t.view)
  /\ calls' = Called("create_server")
  /\ tasks' = (tasks \ {t}) \cup {[t EXCEPT !.pc = "create", !.payload = CreatePayload(state)]}
  /\ UNCHANGED <<state, log, races, apiVars, control>>

\* the answer of create_server: the success embed needs result["attributes"]
\* (KeyError without it); only PterodactylError is caught
Step8Created(t, r) ==
  /\ At(t, "Review", "create")
  /\ r \in CreateOutcomes
  /\ tasks' = tasks \ {t}
  /\ log' = IF r.kind = "PterodactylError"
              THEN Done(t, "apierror", ErrorEmbed("Pterodactyl returned an error:", r.message))
            ELSE IF r.kind # "ok" THEN Done(t, "exception", NoMessage)
            ELSE IF "attributes" \notin DOMAIN r.value THEN Done(t, "malformed", NoMessage)
            ELSE Done(t, "created", [kind |-> "success", prefix |-> "", body |-> [kind |-> "none"]])
  /\ UNCHANGED <<state, views, calls, races, apiVars, control>>

\* Cancel pressed: self.stop(); the cancelled message
Step8Cancel(v) ==
  /\ CanDispatch(v, "Review")
  /\ views' = Stopped(Clicked(v), v)
  /\ races' = Raced(v)
  /\ log' = log \cup {[view |-> v, n |-> views[v].clicks + 1, stage |-> "Review",
                       outcome |-> "cancelled",
                       msg |-> [kind |-> "warning", prefix |-> "",
                                body |-> Literal("Server creation cancelled.")]]}
  /\ UNCHANGED <<state, tasks, calls, apiVars, control>>

(***************************************************************************)
(* The wizard: one session, started by /servers create.                    *)
(***************************************************************************)
CallNames ==
  {"list_users", "list_nodes", "list_nests", "list_eggs", "get_egg", "list_allocations",
   "create_server"}

WizardIdle ==
  /\ state = CreationState
  /\ views = <<>>
  /\ tasks = {}
  /\ calls = [c \in CallNames |-> 0]
  /\ log = {}
  /\ races = 0

\* servers_create: interaction.response.send_modal(Step1Modal(self.ptero))
InitWizard ==
  /\ state = CreationState
  /\ views = <<NewView("Basics", <<>>)>>
  /\ tasks = {}
  /\ calls = [c \in CallNames |-> 0]
  /\ log = {}
  /\ races = 0

Texts == UNION {Range(views[v].options) : v \in 1..Len(views)}

Shown == 1..Len(views)

NextWizard ==
  \/ \E v \in Shown, b \in BasicsInputs : Step1Submit(v, b[1], b[2], b[3])
  \/ \E t \in tasks : Step1Deferred(t)
  \/ \E t \in tasks, r \in ListOutcomes(PanelUsers) : Step1Looked(t, r)
  \/ \E v \in Shown, x \in Texts : Within(v, MaxRaces) /\ Step2Select(v, x)
  \/ \E t \in tasks : Step2Deferred(t)
  \/ \E t \in tasks, r \in ListOutcomes(PanelNodes) : Step2Looked(t, r)
  \/ \E v \in Shown, x \in Texts : Within(v, MaxRaces) /\ Step3Select(v, x)
  \/ \E t \in tasks : Step3Deferred(t)
  \/ \E t \in tasks, r \in ListOutcomes(PanelNests) : Step3Looked(t, r)
  \/ \E v \in Shown, x \in Texts : Within(v, MaxRaces) /\ Step4Select(v, x)
  \/ \E t \in tasks : Step4Deferred(t)
  \/ \E t \in tasks, r \in ListOutcomes(PanelEggs) : Step4Looked(t, r)
  \/ \E v \in Shown, x \in Texts : Within(v, MaxRaces) /\ Step5Select(v, x)
  \/ \E t \in tasks : Step5Deferred(t)
  \/ \E t \in tasks : \E r \in DetailOutcomes(EggDetail(t.id)) : Step5Looked(t, r)
  \/ \E v \in Shown, x \in Texts : Within(v, MaxRaces) /\ Step5bSelect(v, x)
  \/ \E t \in tasks : Step5bDeferred(t)
  \/ \E t \in tasks : \E r \in ListOutcomes(PanelAllocations(t.id)) : Step5bLooked(t, r)
  \/ \E v \in Shown, x \in Texts : Within(v, MaxRaces) /\ Step6Select(v, x)
  \/ \E v \in Shown, r \in ResourceInputs : Step7Submit(v, r[1], r[2], r[3], r[4], r[5])
  \/ \E t \in tasks : Step7Deferred(t)
  \/ \E v \in Shown : Within(v, MaxRaces) /\ Step8Confirm(v)
  \/ \E t \in tasks : Step8Deferred(t)
  \/ \E t \in tasks, r \in CreateOutcomes : Step8Created(t, r)
  \/ \E v \in Shown : Within(v, MaxRaces) /\ Step8Cancel(v)
  \/ \E v \in Shown : InTime(v, MaxRaces) /\ IdleWindowPassed(v)

MaxOutOfTurn == 2

\* the wizard up to the Allocation message on a panel whose lookups succeed,
\* with a second event out of turn
NextRaced ==
  \/ \E v \in Shown, b \in BasicsInputs : Step1Submit(v, b[1], b[2], b[3])
  \/ \E t \in tasks : Step1Deferred(t)
  \/ \E t \in tasks : Step1Looked(t, Returned(PanelUsers))
  \/ \E v \in Shown, x \in Texts : Within(v, MaxOutOfTurn) /\ Step2Select(v, x)
  \/ \E t \in tasks : Step2Deferred(t)
  \/ \E t \in tasks : Step2Looked(t, Returned(PanelNodes))
  \/ \E v \in Shown, x \in Texts : Within(v, MaxOutOfTurn) /\ Step3Select(v, x)
  \/ \E t \in tasks : Step3Deferred(t)
  \/ \E t \in tasks : Step3Looked(t, Returned(PanelNests))
  \/ \E v \in Shown, x \in Texts : Within(v, MaxOutOfTurn) /\ Step4Select(v, x)
  \/ \E t \in tasks : Step4Deferred(t)
  \/ \E t \in tasks : Step4Looked(t, Returned(PanelEggs))
  \/ \E v \in Shown, x \in Texts : Within(v, MaxOutOfTurn) /\ Step5Select(v, x)
  \/ \E t \in tasks : Step5Deferred(t)
  \/ \E t \in tasks : Step5Looked(t, Returned(EggDetail(t.id)))
  \/ \E v \in Shown, x \in Texts : Within(v, MaxOutOfTurn) /\ Step5bSelect(v, x)
  \/ \E t \in tasks : Step5bDeferred(t)
  \/ \E t \in tasks : Step5bLooked(t, Returned(PanelAllocations(t.id)))
(***************************************************************************)
(* The control API (the /api/client wrapper of cogs/manage.py) and the     *)
(* control panel's buttons.                                                *)
(***************************************************************************)
IdentifierLen == 8

Uuid == <<"a", "b", "c", "d", "e", "f", "1", "2", "3", "4", "5", "6", "7", "8", "9", "0">>

\* the `attributes` block of a server as the application API lists it
ServerAttrs ==
  { [name |-> <<"s">>, identifier |-> <<"i", "d">>, uuid |-> Uuid],
    [name |-> <<"s">>, identifier |-> <<>>, uuid |-> Uuid],
    [name |-> <<"s">>, uuid |-> Uuid],
    [name |-> <<"s">>] }

\* attr.get("identifier") or attr.get("uuid", "")[:8]
_get_identifier(attr) ==
  IF Get(attr, "identifier", <<>>) # <<>> THEN attr.identifier
  ELSE Take(Get(attr, "uuid", <<>>), IdentifierLen)

\* AdminClientAPI._req: the status is read only to recognise 204
_req(method, net) ==
  IF net.kind = "neterror" THEN ClientError
  ELSE IF net.status = NoContent THEN Returned(EmptyObj)
  ELSE IF Strip(net.body.text) = <<>> THEN Returned(EmptyObj)
  ELSE IF net.body.parses THEN Returned(net.body.doc)
  ELSE Returned([_raw |-> net.body.text])

\* AdminClientAPI.power / AdminClientAPI.reinstall
power(net) == _req("POST", net)

reinstall(net) == _req("POST", net)

\* the module's _build_embed is its last definition: the identifier is
\* app_attr.get("identifier", ""), live stats are asked for only when it is
\* not empty, and the names read next are ones the module never binds
_build_embed(app_attr) ==
  LET identifier == Get(app_attr, "identifier", <<>>)
  IN  [kind |-> "NameError",
       name |-> IF identifier # <<>> THEN "_client_api" ELSE "_state_line",
       identifier |-> identifier,
       stats |-> IF identifier # <<>> THEN "asked" ELSE "skipped"]

\* no embed was built
NoEmbed == [kind |-> "none", name |-> "", identifier |-> <<>>, stats |-> "none"]

Signals == {"start", "stop", "restart", "kill"}

ControlStatuses == {200, 204, 403, 500}

ControlBodies ==
  { RawBody(<<>>), RawBody(<<"\r", "\n">>), RawBody(<<"<", "h", "1", ">">>),
    JsonBody(<<"{", "e", "}">>, ErrorsDoc), JsonBody(<<"{", "o", "}">>, ObjectDoc) }

ControlOutcomes == {Response(s, b) : s \in ControlStatuses, b \in ControlBodies} \cup {NetError}

MaxPresses == 2

NoConfirm == [shown |-> FALSE, stopped |-> FALSE, confirmed |-> FALSE]

\* ControlView.__init__; no button pressed yet.  handlers holds one record
\* per press dispatched, in the order of the presses
ControlView(attr) ==
  [attr |-> attr, id |-> _get_identifier(attr), finished |-> FALSE, handlers |-> <<>>,
   sent |-> <<>>, reports |-> <<>>]

ControlIdle == ControlView(EmptyObj)

\* what a step of a handler that makes a control-API request leaves alone
notControl == <<transport, panel, pager, wizVars, pair, deletion, command, build>>

\* the coroutine a press starts, at its first await; a reinstall handler
\* makes a _ReinstallConfirm of its own
Handler(op, signal, pc) ==
  [op |-> op, signal |-> signal, pc |-> pc, confirm |-> NoConfirm, net |-> NetError]

Presses == Len(control.handlers)

StatusOf(net) == IF net.kind = "neterror" THEN 0 ELSE net.status

Report(op, net, raised, shown, embed) ==
  [op |-> op, status |-> StatusOf(net), raised |-> raised, shown |-> shown, embed |-> embed]

Pressed(op, signal, pc) == [control EXCEPT !.handlers = Append(@, Handler(op, signal, pc))]

\* the library dispatches a press to the view until the view has timed out
CanPress == ~control.finished

\* the bound of the specifications on the presses of one view
MorePresses == Presses < MaxPresses

HandlerAt(h, op, pc) ==
  /\ h \in 1..Presses
  /\ control.handlers[h].op = op
  /\ control.handlers[h].pc = pc

\* no press for the view's 600 seconds: the library finishes the view and
\* dispatches nothing to it any more; handlers in flight go on
ControlTimedOut ==
  /\ ~control.finished
  /\ control' = [control EXCEPT !.finished = TRUE]
  /\ UNCHANGED <<apiVars, wizVars>>

\* start/stop/restart/kill: _send_power runs to `await inter.response.defer`
PowerPressed(signal) ==
  /\ CanPress
  /\ control' = Pressed("power", signal, "defer")
  /\ UNCHANGED <<apiVars, wizVars>>

\* the defer has returned: _api.power(self._id, signal) sends its request
PowerDeferred(h) ==
  /\ HandlerAt(h, "power", "defer")
  /\ control' = [control EXCEPT
                   !.handlers[h].pc = "request",
                   !.sent = Append(@, [op |-> "power", id |-> control.id,
                                       signal |-> control.handlers[h].signal, press |-> h])]
  /\ sessions' = AdminOpened(sessions)
  /\ UNCHANGED notControl

\* the request is over: what _req raises is reported with its text; after a
\* response the handler goes to `await asyncio.sleep(2)`
PowerAnswered(h, net) ==
  /\ HandlerAt(h, "power", "request")
  /\ net \in ControlOutcomes
  /\ LET r == power(net)
     IN  control' =
           IF r.kind # "ok"
             THEN [control EXCEPT
                     !.handlers[h].pc = "done",
                     !.handlers[h].net = net,
                     !.reports = Append(@, Report("power", net, r.kind, "error", NoEmbed))]
             ELSE [control EXCEPT !.handlers[h].pc = "sleep", !.handlers[h].net = net]
  /\ sessions' = AdminEnded(sessions)
  /\ UNCHANGED notControl

\* after the sleep: the embed is rebuilt, then "sent" is reported; any
\* exception is reported with its text
PowerSlept(h) ==
  /\ HandlerAt(h, "power", "sleep")
  /\ LET e   == _build_embed(control.attr)
         net == control.handlers[h].net
     IN  control' = [control EXCEPT
           !.handlers[h].pc = "done",
           !.reports = Append(@,
              IF e.kind # "embed" THEN Report("power", net, e.kind, "error", e)
              ELSE Report("power", net, "", "sent", e))]
  /\ UNCHANGED <<apiVars, wizVars>>

\* refresh runs to `await inter.response.defer`
RefreshPressed ==
  /\ CanPress
  /\ control' = Pressed("refresh", "", "defer")
  /\ UNCHANGED <<apiVars, wizVars>>

\* the defer has returned: nothing catches what _build_embed raises
RefreshDeferred(h) ==
  /\ HandlerAt(h, "refresh", "defer")
  /\ LET e == _build_embed(control.attr)
     IN  control' = [control EXCEPT
           !.handlers[h].pc = "done",
           !.reports = Append(@,
              IF e.kind # "embed" THEN Report("refresh", NetError, e.kind, "none", e)
              ELSE Report("refresh", NetError, "", "refreshed", e))]
  /\ UNCHANGED <<apiVars, wizVars>>

\* reinstall: confirm = _ReinstallConfirm(); the confirmation is sent;
\* await confirm.wait()
ReinstallPressed ==
  /\ CanPress
  /\ control' = [Pressed("reinstall", "", "confirming") EXCEPT
                   !.handlers[Presses + 1].confirm.shown = TRUE]
  /\ UNCHANGED <<apiVars, wizVars>>

ConfirmOpen(h) ==
  /\ h \in 1..Presses
  /\ control.handlers[h].confirm.shown
  /\ ~control.handlers[h].confirm.stopped

\* _ReinstallConfirm.yes
ConfirmYes(h) ==
  /\ ConfirmOpen(h)
  /\ control' = [control EXCEPT !.handlers[h].confirm.confirmed = TRUE,
                                !.handlers[h].confirm.stopped = TRUE]
  /\ UNCHANGED <<apiVars, wizVars>>

\* _ReinstallConfirm.no
ConfirmNo(h) ==
  /\ ConfirmOpen(h)
  /\ control' = [control EXCEPT !.handlers[h].confirm.confirmed = FALSE,
                                !.handlers[h].confirm.stopped = TRUE]
  /\ UNCHANGED <<apiVars, wizVars>>

\* the confirmation's 30 seconds pass
ConfirmTimeout(h) ==
  /\ ConfirmOpen(h)
  /\ control' = [control EXCEPT !.handlers[h].confirm.stopped = TRUE]
  /\ UNCHANGED <<apiVars, wizVars>>

\* confirm.wait() returns: the request is issued, or "cancelled" is reported
ReinstallResumed(h) ==
  /\ HandlerAt(h, "reinstall", "confirming")
  /\ control.handlers[h].confirm.stopped
  /\ control' =
       IF control.handlers[h].confirm.confirmed
         THEN [control EXCEPT
                 !.handlers[h].pc = "request",
                 !.sent = Append(@, [op |-> "reinstall", id |-> control.id, signal |-> "",
                                     press |-> h])]
         ELSE [control EXCEPT
                 !.handlers[h].pc = "done",
                 !.reports = Append(@, Report("reinstall", NetError, "", "cancelled", NoEmbed))]
  /\ sessions' = IF control.handlers[h].confirm.confirmed THEN AdminOpened(sessions)
                  ELSE sessions
  /\ UNCHANGED notControl

\* the answer to POST /servers/{id}/reinstall
ReinstallAnswered(h, net) ==
  /\ HandlerAt(h, "reinstall", "request")
  /\ net \in ControlOutcomes
  /\ LET r == reinstall(net)
     IN  control' = [control EXCEPT
           !.handlers[h].pc = "done",
           !.handlers[h].net = net,
           !.reports = Append(@,
              IF r.kind # "ok" THEN Report("reinstall", net, r.kind, "error", NoEmbed)
              ELSE Report("reinstall", net, "", "started", NoEmbed))]
  /\ sessions' = AdminEnded(sessions)
  /\ UNCHANGED notControl

(***************************************************************************)
(* The HTTP sessions.  PterodactylClient keeps one aiohttp session in      *)
(* self._session, made by the first request that finds none open, and      *)
(* closed by close() at shutdown.  AdminClientAPI._req opens a session of  *)
(* its own for every request and closes it when the request is over.       *)
(***************************************************************************)
MaxInflight == 2

MaxSessions == 3

MaxCloses == 2

SessionsIdle ==
  [client |-> "none", created |-> 0, closes |-> 0, inflight |-> 0,
   admin |-> 0, adminCreated |-> 0, closeCalls |-> 0]

\* a client that has made no session yet, has one open, or has closed it
ClientStates ==
  { SessionsIdle,
    [SessionsIdle EXCEPT !.client = "open", !.created = 1],
    [SessionsIdle EXCEPT !.client = "closed", !.created = 1, !.closes = 1, !.closeCalls = 1] }

notSessions == <<transport, panel, pager, wizVars, control, pair, deletion, command, build>>

\* session = await self._get_session(): a new session when self._session is
\* None or closed, the one there is otherwise; then the request is sent
RequestStart ==
  /\ sessions.inflight < MaxInflight
  /\ sessions.client # "open" => sessions.created < MaxSessions
  /\ sessions' = Opened(sessions)
  /\ UNCHANGED notSessions

\* the response of a request of PterodactylClient has been read
RequestEnd ==
  /\ sessions.inflight > 0
  /\ sessions' = Ended(sessions)
  /\ UNCHANGED notSessions

\* async with aiohttp.ClientSession(...) as sess: sess.request(...)
AdminReqStart ==
  /\ sessions.admin < MaxInflight
  /\ sessions.adminCreated < MaxSessions
  /\ sessions' = AdminOpened(sessions)
  /\ UNCHANGED notSessions

\* the async with block of _req is left: its session is closed
AdminReqEnd ==
  /\ sessions.admin > 0
  /\ sessions' = AdminEnded(sessions)
  /\ UNCHANGED notSessions

\* PterodactylClient.close(): closes the session if there is an open one
Close ==
  /\ sessions.closeCalls < MaxCloses
  /\ sessions' = IF sessions.client = "open"
                   THEN [sessions EXCEPT !.client = "closed", !.closes = @ + 1,
                                         !.closeCalls = @ + 1]
                   ELSE [sessions EXCEPT !.closeCalls = @ + 1]
  /\ UNCHANGED notSessions

(***************************************************************************)
(* Two creation sessions side by side.  Every Basics submission makes a    *)
(* CreationState of its own; each view and modal of a session keeps a      *)
(* reference to that record (self.state) and hands it to the next step.    *)
(* heap holds the records made so far, ref is a session's reference.  A    *)
(* handler runs from its event to its first await, from there to its API   *)
(* call, and from the answer to its end; the two sessions interleave at    *)
(* these points.  Both sessions get the answers of the same panel.         *)
(***************************************************************************)
Sessions == {1, 2}

StageAfter(stage) ==
  CASE stage = "Basics"     -> "Owner"
    [] stage = "Owner"      -> "Node"
    [] stage = "Node"       -> "Family"
    [] stage = "Family"     -> "Template"
    [] stage = "Template"   -> "Image"
    [] stage = "Image"      -> "Allocation"
    [] stage = "Allocation" -> "Resources"
    [] stage = "Resources"  -> "Review"
    [] OTHER                -> "Done"

\* what a handler writes to the record it holds, in each of its three parts
SessionWrite(rec, stage, phase, x) ==
  IF stage = "Basics" /\ phase = "deferred"
    THEN [CreationState EXCEPT !.name = Strip(x[1]), !.description = Strip(x[2]),
                               !.external_id = Strip(x[3])]
  ELSE IF stage = "Owner" /\ phase = "event" THEN [rec EXCEPT !.user_id = ParseInt(x).val]
  ELSE IF stage = "Node" /\ phase = "event" THEN [rec EXCEPT !.node_id = ParseInt(x).val]
  ELSE IF stage = "Family" /\ phase = "event" THEN [rec EXCEPT !.nest_id = ParseInt(x).val]
  ELSE IF stage = "Template" /\ phase = "event" THEN [rec EXCEPT !.egg_id = ParseInt(x).val]
  ELSE IF stage = "Template" /\ phase = "answered"
    THEN LET attr  == Get(EggDetail(ParseInt(x).val), "attributes", EmptyObj)
             vars_ == Get(Get(Get(attr, "relationships", EmptyObj), "variables", EmptyObj),
                          "data", <<>>)
         IN  [rec EXCEPT !.egg_name = Get(attr, "name", IntToStr(ParseInt(x).val)),
                         !.docker_images = DockerImages(attr),
                         !.startup = Get(attr, "startup", <<>>),
                         !.env_vars = EnvVars(vars_)]
  ELSE IF stage = "Image" /\ phase = "event" THEN [rec EXCEPT !.docker_image = x]
  ELSE IF stage = "Allocation" /\ phase = "event" THEN [rec EXCEPT !.alloc_id = ParseInt(x).val]
  ELSE IF stage = "Resources" /\ phase = "deferred" THEN AssignResources(rec, x)
  ELSE rec

\* the input a session gives at a stage: the two users differ in everything
\* they type and pick, and either may pick either owner
PairOffers(s, stage, rec) ==
  CASE stage = "Basics" ->
         IF s = 1 THEN {<<<<"s", "1">>, <<>>, <<>>>>} ELSE {<<<<" ", "s">>, <<"d", " ">>, <<"e">>>>}
    [] stage = "Owner" -> Range(IdOptions(PanelUsers))
    [] stage = "Node" -> {IdOptions(PanelNodes)[1]}
    [] stage = "Family" -> {IdOptions(PanelNests)[1]}
    [] stage = "Template" -> {IdOptions(PanelEggs)[s]}
    [] stage = "Image" ->
         LET opts == ImageOptions(rec.docker_images) IN {opts[Len(opts)]}
    [] stage = "Allocation" ->
         {IdOptions(FreeAllocations(PanelAllocations(rec.node_id)))[s]}
    [] stage = "Resources" ->
         IF s = 1 THEN {<<<<"8">>, <<"9">>, <<"5", "0">>, <<"0">>, <<"5">>>>}
                  ELSE {<<<<" ", "7">>, <<"9">>, <<"5", "0">>, <<"0">>, <<"5", "0", "0">>>>}
    [] OTHER -> {<<>>}

NewSession ==
  [ref |-> 0, stage |-> "Basics", pc |-> "idle", x |-> <<>>, inputs |-> <<>>,
   payload |-> EmptyObj]

PairIdle == [heap |-> <<>>, sess |-> [s \in Sessions |-> NewSession]]

notPair == <<transport, panel, pager, wizVars, control, sessions, deletion, command, build>>

\* a record that is made once and used by whoever submits Basics
SharedRecord(heap) ==
  [heap |-> IF heap = <<>> THEN <<CreationState>> ELSE [heap EXCEPT ![1] = CreationState],
   ref  |-> 1]

\* state = CreationState(): a new object, known to this handler only
NewRecord(heap) == [heap |-> Append(heap, CreationState), ref |-> Len(heap) + 1]

Noted(me, stage, phase, x) == Append(me.inputs, [stage |-> stage, phase |-> phase, x |-> x])

\* the user of session s submits a modal or picks an option or presses
\* Create Server; the handler runs to its first await
PairEvent(s, x) ==
  LET me  == pair.sess[s]
      rec == IF me.ref = 0 THEN CreationState ELSE pair.heap[me.ref]
  IN  /\ me.pc = "idle"
      /\ me.stage # "Done"
      /\ x \in PairOffers(s, me.stage, rec)
      /\ pair' =
           [heap |-> IF me.ref = 0 THEN pair.heap
                     ELSE [pair.heap EXCEPT ![me.ref] = SessionWrite(rec, me.stage, "event", x)],
            sess |-> [pair.sess EXCEPT ![s] =
                        [me EXCEPT !.x = x,
                                   !.inputs = Noted(me, me.stage, "event", x),
                                   !.stage = IF me.stage = "Allocation" THEN StageAfter(@) ELSE @,
                                   !.pc = IF me.stage = "Allocation" THEN "idle" ELSE "defer"]]]
      /\ UNCHANGED notPair

\* after `await defer`: Basics makes its record and fills it in, Resources
\* parses its fields, Review builds the payload; then the API call, if any
PairDeferred(s) ==
  LET me    == pair.sess[s]
      made  == IF me.stage = "Basics" THEN NewRecord(pair.heap)
               ELSE [heap |-> pair.heap, ref |-> me.ref]
      rec   == SessionWrite(made.heap[made.ref], me.stage, "deferred", me.x)
  IN  /\ me.pc = "defer"
      /\ pair' =
           [heap |-> [made.heap EXCEPT ![made.ref] = rec],
            sess |-> [pair.sess EXCEPT ![s] =
                        [me EXCEPT !.ref = made.ref,
                                   !.inputs = Noted(me, me.stage, "deferred", me.x),
                                   !.payload = IF me.stage = "Review" THEN CreatePayload(rec) ELSE @,
                                   !.stage = IF me.stage = "Resources" THEN StageAfter(@) ELSE @,
                                   !.pc = IF me.stage = "Resources" THEN "idle" ELSE "lookup"]]]
      /\ UNCHANGED notPair

\* the API call has answered: Template stores the egg's details; the next
\* step's view gets the same record
PairAnswered(s) ==
  LET me  == pair.sess[s]
      rec == SessionWrite(pair.heap[me.ref], me.stage, "answered", me.x)
  IN  /\ me.pc = "lookup"
      /\ pair' =
           [heap |-> [pair.heap EXCEPT ![me.ref] = rec],
            sess |-> [pair.sess EXCEPT ![s] =
                        [me EXCEPT !.inputs = Noted(me, me.stage, "answered", me.x),
                                   !.stage = StageAfter(@),
                                   !.pc = "idle"]]]
      /\ UNCHANGED notPair

\* the record one session makes when it runs alone: the writes of its
\* handlers, in order, starting from a fresh CreationState
RECURSIVE Replay(_)
Replay(inputs) ==
  IF inputs = <<>> THEN CreationState
  ELSE LET last == inputs[Len(inputs)]
       IN  SessionWrite(Replay(SubSeq(inputs, 1, Len(inputs) - 1)),
                        last.stage, last.phase, last.x)

(***************************************************************************)
(* /servers delete: the server picker, and for every pick a ConfirmView    *)
(* of its own.  The picker's view is not stopped by a pick, so a second    *)
(* pick starts a second confirmation next to the first.                    *)
(***************************************************************************)
MaxPicks == 2

PanelServers == <<Envelope([id |-> 1]), Envelope([id |-> 2])>>

\* DELETE /servers/{id}: deleted, not found, or no answer
DeleteOutcomes ==
  { _request("DELETE", Response(NoContent, RawBody(<<>>))),
    _request("DELETE", Response(404, JsonBody(<<"{", "e", "}">>, ErrorsDoc))),
    _request("DELETE", NetError) }

DeletionIdle == [flows |-> <<>>, sent |-> <<>>]

notDeletion == <<transport, panel, pager, wizVars, control, sessions, pair, command, build>>

\* on_sel: sid = int(values[0]); conf = ConfirmView(); the confirmation is
\* sent; await conf.wait()
DeletePicked(x) ==
  /\ Len(deletion.flows) < MaxPicks
  /\ x \in Range(IdOptions(PanelServers))
  /\ deletion' = [deletion EXCEPT !.flows =
                    Append(@, [sid |-> ParseInt(x).val, pc |-> "confirming", shown |-> "",
                               confirm |-> [NoConfirm EXCEPT !.shown = TRUE]])]
  /\ UNCHANGED notDeletion

DeleteOpen(i) ==
  /\ i \in 1..Len(deletion.flows)
  /\ deletion.flows[i].confirm.shown
  /\ ~deletion.flows[i].confirm.stopped

\* ConfirmView.confirm_btn: self.confirmed = True; self.stop()
DeleteConfirm(i) ==
  /\ DeleteOpen(i)
  /\ deletion' = [deletion EXCEPT !.flows[i].confirm.confirmed = TRUE,
                                  !.flows[i].confirm.stopped = TRUE]
  /\ UNCHANGED notDeletion

\* ConfirmView.cancel_btn: self.confirmed = False; self.stop()
DeleteCancel(i) ==
  /\ DeleteOpen(i)
  /\ deletion' = [deletion EXCEPT !.flows[i].confirm.confirmed = FALSE,
                                  !.flows[i].confirm.stopped = TRUE]
  /\ UNCHANGED notDeletion

\* the ConfirmView's 30 seconds pass without a press
DeleteTimeout(i) ==
  /\ DeleteOpen(i)
  /\ deletion' = [deletion EXCEPT !.flows[i].confirm.stopped = TRUE]
  /\ UNCHANGED notDeletion

\* a handler that deletes as soon as the confirmation view has stopped
DeleteResumedUnasked(i) ==
  /\ i \in 1..Len(deletion.flows)
  /\ deletion.flows[i].pc = "confirming"
  /\ deletion.flows[i].confirm.stopped
  /\ deletion' = [deletion EXCEPT !.flows[i].pc = "deleting",
                                  !.sent = Append(@, [flow |-> i, sid |-> deletion.flows[i].sid])]
  /\ UNCHANGED notDeletion

\* conf.wait() returns: delete_server(sid) if conf.confirmed, else the
\* "Deletion cancelled." message
DeleteResumed(i) ==
  /\ i \in 1..Len(deletion.flows)
  /\ deletion.flows[i].pc = "confirming"
  /\ deletion.flows[i].confirm.stopped
  /\ deletion' =
       IF deletion.flows[i].confirm.confirmed
         THEN [deletion EXCEPT !.flows[i].pc = "deleting",
                               !.sent = Append(@, [flow |-> i, sid |-> deletion.flows[i].sid])]
         ELSE [deletion EXCEPT !.flows[i].pc = "done", !.flows[i].shown = "cancelled"]
  /\ UNCHANGED notDeletion

\* the answer of delete_server: only PterodactylError is caught
DeleteAnswered(i, r) ==
  /\ i \in 1..Len(deletion.flows)
  /\ deletion.flows[i].pc = "deleting"
  /\ r \in DeleteOutcomes
  /\ deletion' = [deletion EXCEPT
                    !.flows[i].pc = "done",
                    !.flows[i].shown = IF r.kind = "ok" THEN "deleted"
                                       ELSE IF r.kind = "PterodactylError" THEN "error"
                                       ELSE "none"]
  /\ UNCHANGED notDeletion
(***************************************************************************)
(* One slash-command invocation.  Every command carries @is_owner(); the   *)
(* library runs the check before the callback.  What the predicate raises  *)
(* goes to the command's and the cog's error handlers (there are none) and *)
(* to CommandTree.on_error.  PterodactylBot.on_app_command_error is a      *)
(* method of the bot; nothing sets it as the tree's handler, so the tree's *)
(* own on_error runs: it logs the error and sends nothing.                 *)
(***************************************************************************)
OwnerId == 1

MaxUsers == 5

Users == 1..MaxUsers

MaxPages == 2

\* the sizes of the collection behind a listing command: empty, one page,
\* and one item more than MaxPages - 1 full pages
ListingSizes == {0, 1, (MaxPages - 1) * PerPage + 1}

Commands ==
  {"help", "servers create", "servers list", "servers delete", "servers edit-build",
   "nodes list", "users list", "manage servers"}

\* the commands that answer at once, with a message or a modal
Immediate == {"help", "servers create"}

\* the commands whose callback starts with a listing call of the client
Listing == {"servers list", "servers delete", "servers edit-build", "nodes list", "users list"}

\* the requests a command's callback issues when none of them fails: one per
\* page of its listing; /manage servers ends before its listing call
CommandRequests(cmd, total) ==
  IF cmd \in Listing THEN Max(1, TotalPages(total, PerPage)) ELSE 0

Invocation(user, cmd, total) ==
  [user |-> user, cmd |-> cmd, total |-> total, pc |-> "invoked", ran |-> FALSE,
   requests |-> 0, shown |-> "none", logged |-> FALSE]

CommandIdle == [Invocation(OwnerId, "help", 0) EXCEPT !.pc = "idle"]

notCommand == <<transport, panel, pager, wizVars, control, sessions, pair, deletion, build>>

\* is_owner.predicate: raise CheckFailure unless interaction.user.id == OWNER_ID
OwnerCheck ==
  /\ command.pc = "invoked"
  /\ command' = [command EXCEPT !.pc = IF command.user # OwnerId THEN "CheckFailure"
                                       ELSE "callback"]
  /\ UNCHANGED notCommand

\* the callback runs to its first await: /help and /servers create answer
\* there; the others await interaction.response.defer
Callback ==
  /\ command.pc = "callback"
  /\ command' = IF command.cmd \in Immediate
                  THEN [command EXCEPT !.pc = "done", !.ran = TRUE, !.shown = "answer"]
                  ELSE [command EXCEPT !.pc = "defer", !.ran = TRUE]
  /\ UNCHANGED notCommand

\* the defer has returned: /manage servers reads PTERODACTYL_CLIENT_KEY, a
\* name its module never binds (NameError); a listing command requests the
\* first page
CallbackDeferred ==
  /\ command.pc = "defer"
  /\ command' = IF command.cmd \in Listing
                  THEN [command EXCEPT !.pc = "request", !.requests = 1]
                  ELSE [command EXCEPT !.pc = "CommandInvokeError"]
  /\ UNCHANGED notCommand

\* the kinds of answer to a page request
PageAnswers == {"ok", "PterodactylError", "ClientError"}

\* a page request is over: the next page is requested, or the listing is
\* complete and the callback sends its message; PterodactylError is caught
\* and shown, anything else leaves the callback
CallbackAnswered(kind) ==
  /\ command.pc = "request"
  /\ kind \in PageAnswers
  /\ command' =
       IF kind = "PterodactylError" THEN [command EXCEPT !.pc = "done", !.shown = "error"]
       ELSE IF kind # "ok" THEN [command EXCEPT !.pc = "CommandInvokeError"]
       ELSE IF command.requests < CommandRequests(command.cmd, command.total)
         THEN [command EXCEPT !.requests = @ + 1]
       ELSE [command EXCEPT !.pc = "done",
                            !.shown = IF command.total = 0 THEN "empty" ELSE "answer"]
  /\ UNCHANGED notCommand

\* CommandTree.on_error, the library's: the error is logged
TreeOnError ==
  /\ command.pc \in {"CheckFailure", "CommandInvokeError"}
  /\ command' = [command EXCEPT !.pc = "failed", !.logged = TRUE]
  /\ UNCHANGED notCommand
(***************************************************************************)
(* /servers edit-build: the server picker, and for every pick get_server,  *)
(* an EditBuildModal with the fetched attributes, and its submission.      *)
(***************************************************************************)
\* what the panel has stored for a server; server 3 reports no allocation
ServerDetail(sid) ==
  LET stored == [id |-> sid, allocation |-> 10 + sid,
                 limits |-> [memory |-> 64, disk |-> 64, cpu |-> 0, swap |-> 0, io |-> 500],
                 feature_limits |-> [databases |-> 0, backups |-> sid, allocations |-> 2]]
  IN  Envelope(IF sid = 3 THEN [k \in DOMAIN stored \ {"allocation"} |-> stored[k]] ELSE stored)

BuildServers == <<Envelope([id |-> 1]), Envelope([id |-> 2]), Envelope([id |-> 3])>>

\* GET /servers/{id}: the server, an empty body, or what _request raises
FetchOutcomes(sid) ==
  {Returned(ServerDetail(sid)), Returned(EmptyObj)} \cup
  {_request("GET", f) : f \in FailureOutcomes}

\* PATCH /servers/{id}/build: updated, rejected, or no answer
UpdateOutcomes ==
  { _request("PATCH", Response(200, JsonBody(<<"{", "o", "}">>, ObjectDoc))),
    _request("PATCH", Response(422, JsonBody(<<"{", "e", "}">>, ErrorsDoc))),
    _request("PATCH", NetError) }

\* <<memory, disk, cpu, swap, io>> as typed into the modal
BuildInputs ==
  { <<<<"8">>, <<"9">>, <<"5", "0">>, <<"0">>, <<"5">>>>,
    <<<<"8">>, <<"9">>, <<"5", "0">>, <<"-", "1">>, <<"5", "0", "0", "0">>>>,
    <<<<" ", "7">>, <<"9">>, <<"5", "0">>, <<"0">>, <<"5", "0", "0">>>>,
    <<<<"0">>, <<"0">>, <<"0">>, <<"0">>, <<"1", "0">>>>,
    <<<<"0">>, <<"0">>, <<"0">>, <<"0">>, <<"1", "0", "0", "0">>>>,
    <<<<"0">>, <<"0">>, <<"0">>, <<"0">>, <<"-", "3">>>>,
    <<<<"8">>, <<"x">>, <<"5", "0">>, <<"0">>, <<"5">>>>,
    <<<<"x">>, <<"9">>, <<"5", "0">>, <<"0">>, <<"5">>>>,
    <<<<"8">>, <<"9">>, <<"5", "0">>, <<"0">>, <<"1", ".", "5">>>> }

MaxEdits == 2

PickerTimeout == 60

\* a pick of the picker: its handler, and the modal once it is shown
Edit(sid) ==
  [sid |-> sid, pc |-> "fetch", attr |-> EmptyObj, alloc_id |-> 0, texts |-> <<>>,
   shown |-> "none"]

BuildIdle == [finished |-> TRUE, flows |-> <<>>, sent |-> <<>>]

notBuild == <<transport, panel, pager, wizVars, control, sessions, pair, deletion, command>>

EditAt(i, pc) == i \in 1..Len(build.flows) /\ build.flows[i].pc = pc

\* on_sel: sid = int(values[0]); await get_server(sid).  The picker's view
\* is never stopped, so it takes picks until its timeout
BuildPicked(x) ==
  /\ ~build.finished
  /\ x \in Range(IdOptions(BuildServers))
  /\ build' = [build EXCEPT !.flows = Append(@, Edit(ParseInt(x).val))]
  /\ UNCHANGED notBuild

\* the picker has had no pick for PickerTimeout seconds: the library
\* finishes the view
BuildTimedOut ==
  /\ PickerTimeout > 0
  /\ ~build.finished
  /\ build' = [build EXCEPT !.finished = TRUE]
  /\ UNCHANGED notBuild

\* srv["attributes"] goes to EditBuildModal.__init__, which keeps
\* attr.get("allocation", 0); nothing in on_sel catches an exception
BuildFetched(i, r) ==
  /\ EditAt(i, "fetch")
  /\ r \in FetchOutcomes(build.flows[i].sid)
  /\ build' =
       IF r.kind # "ok" THEN [build EXCEPT !.flows[i].pc = "done"]
       ELSE IF "attributes" \notin DOMAIN r.value THEN [build EXCEPT !.flows[i].pc = "done"]
       ELSE [build EXCEPT !.flows[i].pc = "modal", !.flows[i].attr = r.value.attributes,
                          !.flows[i].alloc_id = Get(r.value.attributes, "allocation", 0)]
  /\ UNCHANGED notBuild

\* the user submits the five fields; on_submit runs to `await defer`
BuildSubmit(i, texts) ==
  /\ EditAt(i, "modal")
  /\ texts \in BuildInputs
  /\ build' = [build EXCEPT !.flows[i].pc = "defer", !.flows[i].texts = texts]
  /\ UNCHANGED notBuild

\* a payload that sends the feature limits the panel has stored
BuildPayloadStored(b, texts) ==
  [allocation |-> b.alloc_id,
   limits |-> [memory |-> ParseInt(texts[1]).val, disk |-> ParseInt(texts[2]).val,
               cpu |-> ParseInt(texts[3]).val, swap |-> ParseInt(texts[4]).val,
               io |-> Max(IoMin, Min(IoMax, ParseInt(texts[5]).val))],
   feature_limits |-> b.attr.feature_limits]

\* the payload of EditBuildModal.on_submit
BuildPayload(b, texts) ==
  [allocation |-> b.alloc_id,
   limits |-> [memory |-> ParseInt(texts[1]).val, disk |-> ParseInt(texts[2]).val,
               cpu |-> ParseInt(texts[3]).val, swap |-> ParseInt(texts[4]).val,
               io |-> Max(IoMin, Min(IoMax, ParseInt(texts[5]).val))],
   feature_limits |-> [databases |-> FeatureDatabases, backups |-> FeatureBackups,
                       allocations |-> FeatureAllocations]]

\* the try block: a ValueError of any int() leaves it before the call is
\* made; else await update_server_build(self.server_id, payload)
BuildDeferred(i) ==
  /\ EditAt(i, "defer")
  /\ build' =
       IF FirstBad(build.flows[i].texts) # 0
         THEN [build EXCEPT !.flows[i].pc = "done",
                            !.flows[i].shown = "All values must be integers."]
         ELSE [build EXCEPT !.flows[i].pc = "update",
                            !.sent = Append(@, [flow |-> i, sid |-> build.flows[i].sid,
                                                payload |-> BuildPayload(build.flows[i],
                                                                         build.flows[i].texts)])]
  /\ UNCHANGED notBuild

\* the answer of update_server_build: only PterodactylError is caught
BuildAnswered(i, r) ==
  /\ EditAt(i, "update")
  /\ r \in UpdateOutcomes
  /\ build' = [build EXCEPT !.flows[i].pc = "done",
                            !.flows[i].shown = IF r.kind = "ok" THEN "updated"
                                               ELSE IF r.kind = "PterodactylError" THEN "error"
                                               ELSE "none"]
  /\ UNCHANGED notBuild
vars == <<transport, panel, pager, state, views, tasks, calls, log, races, control, extVars>>

\* one call of _request, on a client that has made no session yet, has one
\* open, or has closed the one it had
InitRequest ==
  /\ transport \in [state : {"pending"}, method : Methods, net : NetOutcomes, result : {ClientError}]
  /\ panel = PanelIdle
  /\ pager = PagerIdle
  /\ WizardIdle
  /\ control = ControlIdle
  /\ sessions \in ClientStates
  /\ pair = PairIdle
  /\ deletion = DeletionIdle
  /\ command = CommandIdle
  /\ build = BuildIdle

NextRequest ==
  \/ RequestSent
  \/ ResponseArrived
  \/ TextRead
  \/ DoRequest

SpecRequest == InitRequest /\ [][NextRequest]_vars

InitPaginate ==
  /\ transport = TransportIdle
  /\ panel \in [total : 0..MaxItems, failAt : 0..MaxFailPage, failWith : FailureOutcomes,
                shape : Shapes]
  /\ pager \in [state : {"running"}, params : CallerParams, page : {1}, results : {<<>>},
                requests : {<<>>}, ret : {NoReturn}, err : {ClientError}]
  /\ WizardIdle
  /\ control = ControlIdle
  /\ sessions = SessionsIdle
  /\ pair = PairIdle
  /\ deletion = DeletionIdle
  /\ command = CommandIdle
  /\ build = BuildIdle

NextPaginate ==
  \/ PaginateSent
  \/ PaginateArrived
  \/ PaginateRead
  \/ PaginateStep

SpecPaginate == InitPaginate /\ [][NextPaginate]_vars

\* _paginate(endpoint, params) for callers with and without a page size
InitPaginateWith ==
  /\ transport = TransportIdle
  /\ panel \in [total : 0..MaxItems, failAt : 0..MaxFailPage, failWith : FailureOutcomes,
                shape : {"paged"}]
  /\ pager \in [state : {"running"}, params : CallerParams \cup OverrideParams, page : {1},
                results : {<<>>}, requests : {<<>>}, ret : {NoReturn}, err : {ClientError}]
  /\ WizardIdle
  /\ control = ControlIdle
  /\ sessions = SessionsIdle
  /\ pair = PairIdle
  /\ deletion = DeletionIdle
  /\ command = CommandIdle
  /\ build = BuildIdle

SpecPaginateWith == InitPaginateWith /\ [][NextPaginate]_vars


Init ==
  /\ transport = TransportIdle
  /\ panel = PanelIdle
  /\ pager = PagerIdle
  /\ InitWizard
  /\ control = ControlIdle
  /\ sessions = SessionsIdle
  /\ pair = PairIdle
  /\ deletion = DeletionIdle
  /\ command = CommandIdle
  /\ build = BuildIdle

Next == NextWizard

Spec == Init /\ [][Next]_vars

SpecRaced == Init /\ [][NextRaced]_vars

InitControl ==
  /\ transport = TransportIdle
  /\ panel = PanelIdle
  /\ pager = PagerIdle
  /\ WizardIdle
  /\ control \in {ControlView(a) : a \in ServerAttrs}
  /\ sessions = SessionsIdle
  /\ pair = PairIdle
  /\ deletion = DeletionIdle
  /\ command = CommandIdle
  /\ build = BuildIdle

NextControl ==
  \/ \E s \in Signals : MorePresses /\ PowerPressed(s)
  \/ \E h \in 1..Presses : PowerDeferred(h)
  \/ \E h \in 1..Presses, net \in ControlOutcomes : PowerAnswered(h, net)
  \/ \E h \in 1..Presses : PowerSlept(h)
  \/ MorePresses /\ RefreshPressed
  \/ \E h \in 1..Presses : RefreshDeferred(h)
  \/ MorePresses /\ ReinstallPressed
  \/ \E h \in 1..Presses : ConfirmYes(h)
  \/ \E h \in 1..Presses : ConfirmNo(h)
  \/ \E h \in 1..Presses : ConfirmTimeout(h)
  \/ \E h \in 1..Presses : ReinstallResumed(h)
  \/ \E h \in 1..Presses, net \in ControlOutcomes : ReinstallAnswered(h, net)
  \/ ControlTimedOut

SpecControl == InitControl /\ [][NextControl]_vars

\* the bot's two API clients, from start to shutdown
InitSessions ==
  /\ transport = TransportIdle
  /\ panel = PanelIdle
  /\ pager = PagerIdle
  /\ WizardIdle
  /\ control = ControlIdle
  /\ sessions = SessionsIdle
  /\ pair = PairIdle
  /\ deletion = DeletionIdle
  /\ command = CommandIdle
  /\ build = BuildIdle

NextSessions ==
  \/ RequestStart
  \/ RequestEnd
  \/ AdminReqStart
  \/ AdminReqEnd
  \/ Close

SpecSessions == InitSessions /\ [][NextSessions]_vars

\* two users run /servers create at the same time
InitPair ==
  /\ transport = TransportIdle
  /\ panel = PanelIdle
  /\ pager = PagerIdle
  /\ WizardIdle
  /\ control = ControlIdle
  /\ sessions = SessionsIdle
  /\ pair = PairIdle
  /\ deletion = DeletionIdle
  /\ command = CommandIdle
  /\ build = BuildIdle

NextPair ==
  \/ \E s \in Sessions :
       \E x \in PairOffers(s, pair.sess[s].stage,
                           IF pair.sess[s].ref = 0 THEN CreationState
                           ELSE pair.heap[pair.sess[s].ref]) : PairEvent(s, x)
  \/ \E s \in Sessions : PairDeferred(s)
  \/ \E s \in Sessions : PairAnswered(s)

SpecPair == InitPair /\ [][NextPair]_vars

\* the servers whose attributes carry a non-empty identifier
Identified == {a \in ServerAttrs : Get(a, "identifier", <<>>) # <<>>}

\* the two destructive operations: the reinstall button of a control panel
\* and /servers delete, each behind its confirmation view
InitConfirm ==
  /\ transport = TransportIdle
  /\ panel = PanelIdle
  /\ pager = PagerIdle
  /\ WizardIdle
  /\ control \in {ControlView(a) : a \in Identified}
  /\ sessions = SessionsIdle
  /\ pair = PairIdle
  /\ deletion = DeletionIdle
  /\ command = CommandIdle
  /\ build = BuildIdle

NextConfirm ==
  \/ MorePresses /\ ReinstallPressed
  \/ \E h \in 1..Presses : ConfirmYes(h)
  \/ \E h \in 1..Presses : ConfirmNo(h)
  \/ \E h \in 1..Presses : ConfirmTimeout(h)
  \/ \E h \in 1..Presses : ReinstallResumed(h)
  \/ \E h \in 1..Presses, net \in ControlOutcomes : ReinstallAnswered(h, net)
  \/ ControlTimedOut
  \/ \E x \in Range(IdOptions(PanelServers)) : DeletePicked(x)
  \/ \E i \in 1..Len(deletion.flows) : DeleteConfirm(i)
  \/ \E i \in 1..Len(deletion.flows) : DeleteCancel(i)
  \/ \E i \in 1..Len(deletion.flows) : DeleteTimeout(i)
  \/ \E i \in 1..Len(deletion.flows) : DeleteResumed(i)
  \/ \E i \in 1..Len(deletion.flows), r \in DeleteOutcomes : DeleteAnswered(i, r)

SpecConfirm == InitConfirm /\ [][NextConfirm]_vars

\* a user invokes a slash command
InitCommand ==
  /\ transport = TransportIdle
  /\ panel = PanelIdle
  /\ pager = PagerIdle
  /\ WizardIdle
  /\ control = ControlIdle
  /\ sessions = SessionsIdle
  /\ pair = PairIdle
  /\ deletion = DeletionIdle
  /\ command \in {Invocation(u, c, n) : u \in Users, c \in Commands, n \in ListingSizes}
  /\ build = BuildIdle

NextCommand ==
  \/ OwnerCheck
  \/ Callback
  \/ CallbackDeferred
  \/ \E kind \in PageAnswers : CallbackAnswered(kind)
  \/ TreeOnError

SpecCommand == InitCommand /\ [][NextCommand]_vars

\* the owner runs /servers edit-build and is shown the picker
InitBuild ==
  /\ transport = TransportIdle
  /\ panel = PanelIdle
  /\ pager = PagerIdle
  /\ WizardIdle
  /\ control = ControlIdle
  /\ sessions = SessionsIdle
  /\ pair = PairIdle
  /\ deletion = DeletionIdle
  /\ command = CommandIdle
  /\ build = [BuildIdle EXCEPT !.finished = FALSE]

NextBuild ==
  \/ \E x \in Range(IdOptions(BuildServers)) : Len(build.flows) < MaxEdits /\ BuildPicked(x)
  \/ BuildTimedOut
  \/ \E i \in 1..Len(build.flows) :
        \/ \E r \in FetchOutcomes(build.flows[i].sid) : BuildFetched(i, r)
        \/ \E texts \in BuildInputs : BuildSubmit(i, texts)
        \/ BuildDeferred(i)
        \/ \E r \in UpdateOutcomes : BuildAnswered(i, r)

SpecBuild == InitBuild /\ [][NextBuild]_vars

(***************************************************************************)
(* Claims about the transport and the paginator                            *)
(***************************************************************************)

\* C1 (as stated): against a panel that serves total items as
\* ceil(total/100) pages and reports current_page/total_pages, _paginate
\* returns exactly the total items in panel order and issues exactly
\* total_pages requests, one per page number 1..total_pages.
C1_ExactlyTotalPagesRequests ==
  (pager.state = "returned" /\ panel.shape = "paged") =>
    /\ pager.ret.items = PanelItems(panel.total)
    /\ Len(pager.requests) = TotalPages(panel.total, PerPage)
    /\ \A k \in 1..Len(pager.requests) : pager.requests[k].page = k

\* C1 (amended): the same, with max(1, total_pages) requests: the first
\* page is always requested, also when the collection is empty.  The loop
\* is bounded: the page counter never passes max(1, total_pages).
C1_PaginateReturnsAll ==
  LET tp == Max(1, TotalPages(panel.total, PerPage))
  IN  panel.shape = "paged" =>
        /\ pager.state = "running" => pager.requests = <<>>
        /\ pager.state \in {"request", "text", "json"} =>
             /\ pager.page <= tp
             /\ Len(pager.requests) = pager.page
             /\ Len(pager.results) = (pager.page - 1) * PerPage
        /\ pager.state = "returned" =>
             /\ pager.ret.has
             /\ pager.ret.items = PanelItems(panel.total)
             /\ Len(pager.ret.items) = panel.total
             /\ Len(pager.requests) = tp
             /\ \A k \in 1..Len(pager.requests) :
                  /\ pager.requests[k].page = k
                  /\ pager.requests[k].per_page = PerPage

C1_Witness ==
  /\ pager.state = "returned"
  /\ panel.shape = "paged"
  /\ Len(pager.requests) = 3
  /\ Len(pager.ret.items) > 2 * PerPage

\* C2: _request never returns a value for a response whose status is >= 400,
\* whatever the body: it raises PterodactylError carrying that status.
C2_ErrorStatusAlwaysRaises ==
  (transport.state = "done" /\ transport.net.kind = "response"
     /\ transport.net.status >= 400) =>
    /\ transport.result.kind = "PterodactylError"
    /\ transport.result.status = transport.net.status

\* C3: when the request for page k fails, _paginate raises that same error,
\* returns none of the items of pages 1..k-1, and issues no request after
\* the failed one (no further page, no retry of page k).
C3_PageFailureAborts ==
  \A k \in 1..Len(pager.requests) :
    /\ pager.requests[k].page = k
    /\ panel.failAt = pager.requests[k].page =>
         /\ k = Len(pager.requests)
         /\ pager.state \in {"request", "text", "json", "raised"}
         /\ pager.state = "raised" =>
              /\ pager.err = _request("GET", panel.failWith)
              /\ pager.err.kind # "ok"
         /\ ~pager.ret.has

C3_Witness ==
  /\ pager.state = "raised"
  /\ Len(pager.requests) >= 2
  /\ Len(pager.results) >= PerPage
  /\ panel.failAt = Len(pager.requests)

\* C4: in every creation session the Review stage leads to at most one
\* create-instance call, whatever the order in which Commit and Cancel
\* events meet the handlers' suspension points.
C4_AtMostOneCreate == calls["create_server"] <= 1

\* C5: a lookup that returns nothing ends the workflow: the message whose
\* handler found nothing stays the last one of the session, no later stage
\* is entered.
C5_EmptyLookupTerminates == \A e \in log : e.outcome = "empty" => Len(views) = e.view

\* C6: a lookup that fails at a wizard stage (before Review) aborts the
\* workflow there and the error's message is shown to the user.
C6_LookupFailureShown ==
  \A e \in log :
    (e.stage # "Review" /\ e.outcome \in {"apierror", "exception"})
      => (e.msg.kind = "error" /\ Len(views) = e.view)

\* C7: a Resources submission rejected for a non-integer field leaves the
\* five resource limits of the session record as they were before it.
C7_RejectedLeavesLimits ==
  [][(\E e \in log' \ log : e.outcome = "validation")
       => /\ state'.memory = state.memory
          /\ state'.disk = state.disk
          /\ state'.cpu = state.cpu
          /\ state'.swap = state.swap
          /\ state'.io = state.io]_vars

\* C8: after a validation failure the session stays at Resources and is
\* prompted again: a Resources form is open for another submission.
C8_RejectedIsPromptedAgain ==
  \A v \in 1..Len(views) :
    views[v].rejected =>
      \E w \in 1..Len(views) : views[w].stage = "Resources" /\ ~views[w].stopped

\* C9: every failed user-initiated action (error status, connection
\* failure, undecodable body, malformed success body) shows the user an
\* error message; none ends silently.
C9_NoSilentFailure ==
  \A e \in log :
    e.outcome \in {"apierror", "exception", "malformed"} => e.msg.kind = "error"

\* C10: a power signal or reinstall whose request was answered with a
\* status >= 400 is never reported to the user as sent or started.
C10_ErrorStatusNotReportedDone ==
  \A i \in 1..Len(control.reports) :
    control.reports[i].status >= ErrorFloor
      => control.reports[i].shown \notin {"sent", "started"}

\* C11: every control-API call made for an instance, the live-stats call of
\* the status embed included, addresses it by the explicit identifier when
\* there is one and by the first 8 characters of its UUID otherwise; an
\* instance with a UUID is never addressed by, or skipped for, an empty one.
C11_AddressedByResolvedIdentifier ==
  /\ \A i \in 1..Len(control.sent) : control.sent[i].id = _get_identifier(control.attr)
  /\ \A i \in 1..Len(control.reports) :
       control.reports[i].embed.kind # "none"
         => /\ control.reports[i].embed.identifier = _get_identifier(control.attr)
            /\ ("uuid" \in DOMAIN control.attr => control.reports[i].embed.stats = "asked")

\* C12: when the first answer carries no pagination block, _paginate takes
\* it for page 1 of 1: it issues exactly one request and returns the data
\* items of that answer, an empty list when the answer has no data.
C12_NoPaginationBlockIsOnePage ==
  panel.shape # "paged" =>
    /\ pager.state = "running" => pager.requests = <<>>
    /\ pager.state \in {"request", "text", "json"} => Len(pager.requests) = 1
    /\ pager.state = "returned" =>
         /\ Len(pager.requests) = 1
         /\ pager.requests[1].page = 1
         /\ pager.ret.has
         /\ pager.ret.items = IF panel.shape = "nodata" THEN <<>>
                              ELSE Take(PanelItems(panel.total), PerPage)

C12_Witness ==
  /\ pager.state = "returned"
  /\ panel.shape = "bare"
  /\ panel.total > PerPage
  /\ Len(pager.requests) = 1
  /\ Len(pager.ret.items) = PerPage

\* C13: for a response with status >= 400 and a JSON body, _request raises
\* PterodactylError with the response's status, and with the detail of the
\* first element of the body's errors array as message when that array is
\* there and not empty, the stringified body otherwise.
C13_ErrorMessageFromBody ==
  (transport.state = "done" /\ transport.net.kind = "response"
     /\ transport.net.status >= ErrorFloor /\ transport.net.body.parses) =>
    /\ transport.result.kind = "PterodactylError"
    /\ transport.result.status = transport.net.status
    /\ LET doc  == transport.net.body.doc
           errs == IF "errors" \in DOMAIN doc THEN doc.errors ELSE <<>>
       IN  transport.result.message =
             IF errs = <<>> THEN [kind |-> "str", of |-> doc]
             ELSE IF "detail" \in DOMAIN errs[1]
               THEN [kind |-> "detail", text |-> errs[1].detail]
               ELSE [kind |-> "None"]

\* C14: for every HTTP method, _request returns the empty object for a
\* response with status 204 and for a response whose body is empty or
\* consists of whitespace only.
C14_NoContentIsEmptyObject ==
  (/\ transport.state = "done"
   /\ transport.net.kind = "response"
   /\ \/ transport.net.status = NoContent
      \/ \A i \in 1..Len(transport.net.body.text) : transport.net.body.text[i] \in Whitespace)
    => /\ transport.result.kind = "ok"
       /\ transport.result.value = EmptyObj

C14_Witness ==
  /\ transport.state = "done"
  /\ transport.method = "DELETE"
  /\ transport.net.kind = "response"
  /\ transport.net.status = 200
  /\ transport.net.body.text = <<" ", "\n">>
  /\ transport.result.kind = "ok"
  /\ transport.result.value = EmptyObj

\* C15: when the Template step has fetched the template, the session's
\* image map is the template's docker_images map when that is a non-empty
\* map; else the one entry {segment after the last colon of docker_image ->
\* docker_image} when docker_image is there; else exactly
\* {"default": "ghcr.io/pterodactyl/yolks:java_17"}.  It is never empty.
C15_ImageMapDerived ==
  [][\A t \in tasks \ tasks' :
       (t.stage = "Template" /\ t.pc = "lookup"
          /\ \E e \in log' \ log : e.outcome = "advanced") =>
         LET attr == Get(EggDetail(t.id), "attributes", EmptyObj)
             map  == IF "docker_images" \in DOMAIN attr THEN attr.docker_images
                     ELSE [isDict |-> FALSE, items |-> <<>>]
             img  == IF "docker_image" \in DOMAIN attr THEN attr.docker_image ELSE <<>>
             images == state'.docker_images
         IN  /\ images # <<>>
             /\ (map.isDict /\ map.items # <<>>) => images = map.items
             /\ (~(map.isDict /\ map.items # <<>>) /\ img # <<>>) =>
                  /\ Len(images) = 1
                  /\ images[1].tag = img
                  /\ \A i \in 1..Len(images[1].label) : images[1].label[i] # ":"
                  /\ \E k \in 0..Len(img) :
                       /\ images[1].label = SubSeq(img, k + 1, Len(img))
                       /\ k > 0 => img[k] = ":"
                       /\ k = 0 => \A i \in 1..Len(img) : img[i] # ":"
             /\ (~(map.isDict /\ map.items # <<>>) /\ img = <<>>) =>
                  images = <<[label |-> <<"d", "e", "f", "a", "u", "l", "t">>,
                              tag |-> FallbackImage]>>]_vars

C15_Witness ==
  /\ \E v \in 1..Len(views) : views[v].stage = "Image"
  /\ state.egg_id = 2
  /\ state.docker_images = <<[label |-> <<"j", "_", "1", "7">>, tag |-> T_legacy]>>

\* C16: the payload confirm() builds carries the session's name, user, egg,
\* docker_image, startup, environment and the five limits, feature_limits
\* {databases: 5, backups: 3, allocations: 1}, the chosen allocation as
\* allocation.default, start_on_completion and skip_scripts false, and the
\* description / external_id keys exactly when those fields are not empty.
C16_CreatePayload ==
  [][\A t \in tasks' \ tasks :
       t.pc = "create" =>
         LET p == t.payload
         IN  /\ p.name = state.name
             /\ p.user = state.user_id
             /\ p.egg = state.egg_id
             /\ p.docker_image = state.docker_image
             /\ p.startup = state.startup
             /\ p.environment = state.env_vars
             /\ p.limits = [memory |-> state.memory, swap |-> state.swap, disk |-> state.disk,
                            io |-> state.io, cpu |-> state.cpu]
             /\ p.feature_limits = [databases |-> 5, backups |-> 3, allocations |-> 1]
             /\ p.allocation = [default |-> state.alloc_id]
             /\ p.start_on_completion = FALSE
             /\ p.skip_scripts = FALSE
             /\ ("description" \in DOMAIN p) <=> (state.description # <<>>)
             /\ ("description" \in DOMAIN p) => p.description = state.description
             /\ ("external_id" \in DOMAIN p) <=> (state.external_id # <<>>)
             /\ ("external_id" \in DOMAIN p) => p.external_id = state.external_id
             /\ DOMAIN p \subseteq
                  {"name", "user", "egg", "docker_image", "startup", "environment", "limits",
                   "feature_limits", "allocation", "start_on_completion", "skip_scripts",
                   "description", "external_id"}]_vars

C16_Witness ==
  \E t \in tasks :
    /\ t.pc = "create"
    /\ t.payload.name = <<"s", "1">>
    /\ "description" \notin DOMAIN t.payload
    /\ "external_id" \notin DOMAIN t.payload
    /\ t.payload.allocation.default = 3
    /\ t.payload.user = 2

\* C17: the io weight the Resources step stores is the submitted integer
\* clamped into [10, 1000] (5 -> 10, 500 -> 500, 5000 -> 1000); the io of
\* the session, and of every create payload, stays within 10..1000.
C17_IoClamped ==
  [][/\ \A t \in tasks \ tasks' :
          (t.stage = "Resources" /\ \E e \in log' \ log : e.outcome = "advanced") =>
            /\ t.texts[5] = <<"5">> => state'.io = 10
            /\ t.texts[5] = <<"5", "0", "0">> => state'.io = 500
            /\ t.texts[5] = <<"5", "0", "0", "0">> => state'.io = 1000
     /\ state'.io >= 10 /\ state'.io <= 1000
     /\ \A t \in tasks' :
          t.pc = "create" => (t.payload.limits.io >= 10 /\ t.payload.limits.io <= 1000)]_vars

C17_Witness ==
  /\ \E v \in 1..Len(views) : views[v].stage = "Review"
  /\ \E t \in tasks : t.pc = "create" /\ t.payload.limits.io = 1000
  /\ state.io = 1000

\* C18: once a stage of the wizard, the Basics and Resources forms
\* included, has had no input for its idle window, the session is
\* discarded: that stage takes no input any more, so nothing is submitted,
\* looked up or created from it.
C18_NoInputAfterIdleWindow ==
  [][\A v \in 1..Len(views) :
       views[v].expired =>
         /\ views'[v].clicks = views[v].clicks
         /\ \A t \in tasks' \ tasks : t.view # v \/ t.pc # "defer"]_vars

\* C19: the stages a creation session enters, in the order it enters them,
\* are a prefix of Basics, Owner, Node, Family, Template, Image, Allocation,
\* Resources, Review: none skipped, none entered twice, none re-entered.
C19_StagesArePrefix ==
  LET order == <<"Basics", "Owner", "Node", "Family", "Template", "Image", "Allocation",
                 "Resources", "Review">>
  IN  /\ Len(views) <= Len(order)
      /\ \A v \in 1..Len(views) : views[v].stage = order[v]

\* C20: a session that has entered a stage has the fields that stage needs:
\* the submitted name at Owner; user_id at Node; node_id at Family; nest_id
\* at Template; egg_id, egg_name, startup, env_vars and a non-empty image map
\* at Image; docker_image at Allocation; alloc_id at Resources; all of them
\* and the five limits at Review and when the create call is made.
C20_PrerequisitesSet ==
  /\ [](LET Entered(stage) == \E v \in 1..Len(views) : views[v].stage = stage IN
        /\ Entered("Node") => state.user_id # 0
        /\ Entered("Family") => state.node_id # 0
        /\ Entered("Template") => state.nest_id # 0
        /\ Entered("Image") =>
             /\ state.egg_id # 0
             /\ state.egg_name # <<>>
             /\ state.docker_images # <<>>
             /\ state.startup \in {EggDetail(e).attributes.startup :
                                     e \in {1, 2}} \cup {<<>>}
             /\ DOMAIN state.env_vars \subseteq {<<"J", "A", "R">>, <<"M">>}
        /\ Entered("Allocation") => state.docker_image # <<>>
        /\ Entered("Resources") => state.alloc_id # 0
        /\ (Entered("Review") \/ \E t \in tasks : t.pc = "create") =>
             /\ state.user_id # 0 /\ state.node_id # 0 /\ state.nest_id # 0
             /\ state.egg_id # 0 /\ state.alloc_id # 0
             /\ state.egg_name # <<>> /\ state.docker_images # <<>>
             /\ state.docker_image # <<>>
             /\ {state.memory, state.disk, state.cpu, state.swap, state.io} \subseteq Int)
  /\ [][\A t \in tasks \ tasks' :
          (t.stage = "Basics" /\ Len(views') > Len(views)) =>
            /\ views'[Len(views')].stage = "Owner"
            /\ state'.name = Strip(t.texts[1])]_vars

C20_Witness ==
  /\ \E t \in tasks : t.pc = "create"
  /\ state.egg_id = 3
  /\ state.startup = <<>>
  /\ state.alloc_id = 2
  /\ state.docker_image = FallbackImage

\* C21: a step of the handler of a stage changes only the session fields
\* that stage owns (Basics: name, description, external_id; Owner: user_id;
\* Node: node_id; Family: nest_id; Template: egg_id, egg_name, docker_images,
\* startup, env_vars; Image: docker_image; Allocation: alloc_id; Resources:
\* memory, disk, cpu, swap, io; Review: none) and the steps all work on the
\* one session record.
C21_StepWritesOwnFields ==
  [][LET Owned(stage) ==
           CASE stage = "Basics"     -> {"name", "description", "external_id"}
             [] stage = "Owner"      -> {"user_id"}
             [] stage = "Node"       -> {"node_id"}
             [] stage = "Family"     -> {"nest_id"}
             [] stage = "Template"   -> {"egg_id", "egg_name", "docker_images", "startup",
                                         "env_vars"}
             [] stage = "Image"      -> {"docker_image"}
             [] stage = "Allocation" -> {"alloc_id"}
             [] stage = "Resources"  -> {"memory", "disk", "cpu", "swap", "io"}
             [] OTHER                -> {}
         acting ==
           {t.stage : t \in (tasks \ tasks') \cup (tasks' \ tasks)} \cup
           {views[v].stage : v \in {w \in 1..Len(views) : views'[w].clicks # views[w].clicks}}
         changed == {f \in DOMAIN state : state'[f] # state[f]}
     IN  /\ DOMAIN state' = DOMAIN state
         /\ Cardinality(acting) <= 1
         /\ \A stage \in acting : changed \subseteq Owned(stage)
         /\ acting = {} => changed = {}]_vars

C21_Witness ==
  /\ \E v \in 1..Len(views) : views[v].stage = "Review"
  /\ state.name = <<"s">>
  /\ state.description = <<"d">>
  /\ state.user_id = 2
  /\ state.egg_id = 1
  /\ state.env_vars # EmptyObj
  /\ state.docker_image = T_java8
  /\ state.memory = 7

\* C22: the choices of an Image message are the tags of the image map
\* derived from the template chosen at the Template step (the first 25 at
\* most), and the docker_image of a create payload is a tag of the image map
\* of the template whose id the payload sends as egg.
C22_ImageOfChosenTemplate ==
  LET ImagesOf(egg) == ImageOptions(DockerImages(EggDetail(egg).attributes))
  IN  /\ \A v \in 1..Len(views) :
           (views[v].stage = "Image" /\ v = Len(views)) =>
             views[v].options = ImagesOf(state.egg_id)
      /\ \A t \in tasks :
           t.pc = "create" =>
             t.payload.docker_image \in Range(ImagesOf(t.payload.egg))

\* C23: the choices of an Allocation message are ids of allocations of the
\* node chosen at the Node step whose assigned flag is false or absent; an
\* allocation reported as assigned is never offered, and the id a create
\* payload sends as allocation.default is one of the unassigned ones.
C23_OnlyFreeAllocationsOfNode ==
  LET OnNode  == Range(PanelAllocations(state.node_id))
      Free    == {IntToStr(a.attributes.id) :
                    a \in {b \in OnNode : ~Get(b.attributes, "assigned", FALSE)}}
      Taken   == {IntToStr(a.attributes.id) :
                    a \in {b \in OnNode : Get(b.attributes, "assigned", FALSE)}}
  IN  /\ \A v \in 1..Len(views) :
           views[v].stage = "Allocation" =>
             /\ Range(views[v].options) \subseteq Free
             /\ Range(views[v].options) \cap Taken = {}
      /\ \A t \in tasks :
           t.pc = "create" => IntToStr(t.payload.allocation.default) \in Free

\* C24: every request of _paginate carries page, per_page and all the
\* caller's params with the caller's values: the k-th request has page = k
\* and per_page = 100, except for a key the caller supplied itself.
C24_PageAndSizeInjected ==
  \A k \in 1..Len(pager.requests) :
    LET p == pager.requests[k]
    IN  /\ DOMAIN p = {"page", "per_page"} \cup DOMAIN pager.params
        /\ \A key \in DOMAIN pager.params : p[key] = pager.params[key]
        /\ "page" \notin DOMAIN pager.params => p.page = k
        /\ "per_page" \notin DOMAIN pager.params => p.per_page = 100

C24_Witness ==
  /\ pager.state = "returned"
  /\ pager.params = [per_page |-> 50, include |-> "allocations"]
  /\ Len(pager.requests) = 4
  /\ pager.requests[4] = [page |-> 4, per_page |-> 50, include |-> "allocations"]
  /\ Len(pager.ret.items) > 3 * 50

\* C25: the transport makes one HTTP session on first use and every later
\* request uses it until close(); no request of either API client makes a
\* second session while one is open; close() closes an open session once
\* and a repeated close() does nothing.
C25_OneSharedSession ==
  /\ (IF sessions.client = "open" THEN 1 ELSE 0) + sessions.admin <= 1
  /\ sessions.closeCalls = 0 => sessions.created + sessions.adminCreated <= 1
  /\ sessions.closes <= sessions.created
  /\ sessions.inflight > 0 => sessions.client # "none"

\* C26: two creation sessions interleaved at every suspension point do not
\* affect each other: each Basics submission makes a record of its own, and
\* the record and the payload of a session are what that session's own
\* inputs give on a fresh record, whatever the other session does.
C26_SessionsIndependent ==
  /\ \A s \in Sessions :
       LET me == pair.sess[s]
       IN  /\ me.ref # 0 => pair.heap[me.ref] = Replay(me.inputs)
           /\ me.payload # EmptyObj => me.payload = CreatePayload(Replay(me.inputs))
  /\ \A s, t \in Sessions :
       (s # t /\ pair.sess[s].ref # 0) => pair.sess[s].ref # pair.sess[t].ref

C26_Witness ==
  /\ pair.sess[1].stage = "Done"
  /\ pair.sess[2].stage = "Review"
  /\ pair.sess[2].pc = "lookup"
  /\ pair.sess[1].ref = 2
  /\ pair.sess[2].ref = 1
  /\ pair.sess[1].payload.user = 2
  /\ pair.sess[2].payload.user = 2
  /\ pair.sess[1].payload.egg = 1
  /\ pair.sess[2].payload.egg = 2
  /\ pair.sess[2].payload.limits.memory = 7

\* C27: at each select stage (Owner, Node, Family, Template, Image,
\* Allocation) at most one selection is processed: a select message starts
\* at most one handler, and no stage is entered by a second message.
C27_OneSelectionPerStage ==
  /\ \A v \in 1..Len(views) :
       views[v].stage \in {"Owner", "Node", "Family", "Template", "Image", "Allocation"}
         => views[v].clicks <= 1
  /\ \A v, w \in 1..Len(views) : views[v].stage = views[w].stage => v = w

\* C28: a server delete or a control-panel reinstall issues its API call
\* only after the confirm button was pressed while the confirmation view was
\* open; Cancel or a timeout leads to no call, and one confirmation leads to
\* at most one call.
C28_OnlyConfirmedIsDestroyed ==
  /\ [](/\ \A i \in 1..Len(deletion.flows) :
             LET flow  == deletion.flows[i]
                 calls_ == {k \in 1..Len(deletion.sent) : deletion.sent[k].flow = i}
             IN  /\ Cardinality(calls_) <= 1
                 /\ \A k \in calls_ : /\ flow.confirm.confirmed
                                       /\ flow.confirm.stopped
                                       /\ deletion.sent[k].sid = flow.sid
                 /\ (flow.confirm.stopped /\ ~flow.confirm.confirmed) => calls_ = {}
                 /\ flow.shown = "cancelled" => calls_ = {}
        /\ \A h \in 1..Len(control.handlers) :
             LET me     == control.handlers[h]
                 calls_ == {k \in 1..Len(control.sent) :
                              control.sent[k].op = "reinstall" /\ control.sent[k].press = h}
             IN  /\ Cardinality(calls_) <= 1
                 /\ calls_ # {} => /\ me.op = "reinstall"
                                   /\ me.confirm.shown
                                   /\ me.confirm.confirmed
                                   /\ me.confirm.stopped
                 /\ (me.confirm.stopped /\ ~me.confirm.confirmed) => calls_ = {})
  /\ [][/\ \A i \in 1..Len(deletion.flows) :
            (deletion.flows'[i].confirm.confirmed # deletion.flows[i].confirm.confirmed)
              => (~deletion.flows[i].confirm.stopped /\ deletion.flows'[i].confirm.confirmed)
        /\ \A h \in 1..Len(control.handlers) :
            (control'.handlers[h].confirm.confirmed # control.handlers[h].confirm.confirmed)
              => /\ control.handlers[h].confirm.shown
                 /\ ~control.handlers[h].confirm.stopped
                 /\ control'.handlers[h].confirm.confirmed
        /\ control'.sent # control.sent
              => \E h \in 1..Len(control.handlers) :
                   /\ control.handlers[h].pc = "confirming"
                   /\ control.handlers[h].confirm.confirmed
                   /\ control.handlers[h].confirm.stopped
                   /\ control'.handlers[h].pc = "request"
                   /\ control'.sent = Append(control.sent,
                                             [op |-> "reinstall", id |-> control.id,
                                              signal |-> "", press |-> h])]_vars

C28_Witness ==
  /\ Len(deletion.flows) = 2
  /\ deletion.flows[1].shown = "cancelled"
  /\ deletion.flows[2].shown = "deleted"
  /\ deletion.flows[2].sid = 2
  /\ deletion.sent = <<[flow |-> 2, sid |-> 2]>>
  /\ Len(control.handlers) = 2
  /\ \A h \in 1..2 : control.handlers[h].pc = "done"
  /\ control.handlers[1].confirm.stopped
  /\ ~control.handlers[1].confirm.confirmed
  /\ Len(control.sent) = 1
  /\ control.sent[1].op = "reinstall"
  /\ control.sent[1].press = 2

\* C29: a slash command invoked by a user other than OWNER_ID never runs
\* its callback and issues no API request, and the user is shown a
\* permission error.
C29_OwnerOnly ==
  command.user # OwnerId =>
    /\ ~command.ran
    /\ command.requests = 0
    /\ command.pc \in {"invoked", "CheckFailure", "failed"}
    /\ command.pc = "failed" => command.shown = "permission"

\* C30: a build-edit submission with a field that is not an integer issues
\* no update; any other submission issues exactly one update, for the picked
\* server, with the allocation id fetched for that server, the five limits
\* as typed with io clamped into [10, 1000], and feature_limits
\* {databases: 5, backups: 3, allocations: 1} whatever the panel has stored.
C30_BuildUpdate ==
  \A i \in 1..Len(build.flows) :
    LET edit    == build.flows[i]
        typed   == edit.texts
        allInts == \A j \in 1..Len(typed) : ParseInt(typed[j]).ok
        given   == ParseInt(typed[5]).val
        stored  == ServerDetail(edit.sid).attributes
        updates == {k \in 1..Len(build.sent) : build.sent[k].flow = i}
    IN  /\ Cardinality(updates) <= 1
        /\ (typed # <<>> /\ ~allInts) => updates = {}
        /\ (typed # <<>> /\ allInts /\ edit.pc # "defer") => Cardinality(updates) = 1
        /\ \A k \in updates :
             LET call == build.sent[k]
             IN  /\ allInts
                 /\ call.sid = edit.sid
                 /\ "allocation" \in DOMAIN stored => call.payload.allocation = stored.allocation
                 /\ call.payload.limits.memory = ParseInt(typed[1]).val
                 /\ call.payload.limits.disk = ParseInt(typed[2]).val
                 /\ call.payload.limits.cpu = ParseInt(typed[3]).val
                 /\ call.payload.limits.swap = ParseInt(typed[4]).val
                 /\ call.payload.limits.io =
                      (IF given < 10 THEN 10 ELSE IF given > 1000 THEN 1000 ELSE given)
                 /\ call.payload.feature_limits = [databases |-> 5, backups |-> 3, allocations |-> 1]
                 /\ DOMAIN call.payload = {"allocation", "limits", "feature_limits"}

C30_Witness ==
  /\ Len(build.flows) = 2
  /\ build.flows[1].pc = "done"
  /\ build.flows[1].shown = "All values must be integers."
  /\ build.flows[2].pc = "done"
  /\ build.flows[2].shown = "updated"
  /\ build.flows[2].sid = 2
  /\ Len(build.sent) = 1
  /\ build.sent[1].flow = 2
  /\ build.sent[1].payload.allocation = 12
  /\ build.sent[1].payload.limits.io = 1000
  /\ build.flows[2].texts[5] = <<"5", "0", "0", "0">>
  /\ build.flows[2].attr.feature_limits # build.sent[1].payload.feature_limits

====
